---- MODULE Spec2Model ----
(***************************************************************************)
(* A model of finance_crawler: the conditional-GET fetcher with its        *)
(* SQLite cache (fetcher.py), the robots.txt gate (robots.py), the         *)
(* breadth-first frontier of GenericSpider.crawl (sources/base.py), the    *)
(* document storage (storage.py), the harvest loop (cli.py) and the pure   *)
(* functions of utils.py and extractor.py.                                 *)
(*                                                                         *)
(* The specifications share the variables:                                 *)
(*   SpecFetch     AsyncFetcher.fetch called directly, any url/max_retries *)
(*   SpecRobots    RobotsChecker.is_allowed called directly                *)
(*   SpecPatterns  SourceConfig.should_process_url called directly         *)
(*   SpecStorage   DocumentStorage constructed, save_document called       *)
(*   Spec          GenericSpider.crawl driving fetcher and robots gate     *)
(*   SpecCancel    the same crawl, cancelled from outside at an await      *)
(*   SpecHarvest   _harvest_async: every source crawled, then saved        *)
(*   SpecIds       generate_document_id called directly, at any time       *)
(*   SpecFiletypes url_filetype called directly                            *)
(*   SpecDates     parse_date_string called directly                       *)
(*   SpecAgents    the crawl, with a fetcher of any user agent             *)
(*   SpecFragments the crawl of a page whose anchors carry fragments       *)
(*   SpecBuiltin   the crawl of each source of get_builtin_sources()       *)
(*   SpecLive      the crawl under a running event loop (fairness)         *)
(***************************************************************************)
EXTENDS Integers, Sequences, FiniteSets, TLC

\* ------------------------------------------------------------------ bounds
\* Largest max_depth of a SourceConfig.
MaxDepth == 1
\* Largest page budget (config.max_pages, and crawl's max_pages argument).
MaxPages == 2
\* Most anchors on one HTML page.
MaxLinks == 2
\* Largest max_retries a direct caller of fetch passes (the default is 3).
MaxRetries == 3
\* Most patterns in an allow list or in a deny list given directly.
MaxPatterns == 2
\* Most lines the direct callers of save_document let the catalog grow to.
MaxCatalog == 3
\* The logical clock read by datetime.now() stops advancing here.
MaxClock == 2
\* Most generate_document_id calls a direct caller makes.
MaxIdCalls == 2

\* ------------------------------------------------------------- program data
\* fetcher.py: the default of fetch's max_retries parameter.
DefaultMaxRetries == 3
\* fetcher.py, robots.py: the default of both user_agent parameters.
DefaultUserAgent == "finance-crawler-mvp/0.1"
\* fetcher.py: statuses the HTTPStatusError handler treats as transient.
RetryableStatuses == {429, 500, 502, 503, 504}
\* Python's None, where a string or a number is expected.
None == "None"
\* Python's None, where an int is expected (crawl's max_pages argument).
NoneInt == -1
\* Python's None, where an object (a row, a dict, bytes) is expected.
NoneObj == [none |-> TRUE]

\* ---------------------------------------------------------------- URLs
\* A URL is scheme://host/name.ext?query#fragment; ext "" is "no
\* extension", query "" and fragment "" are "none". A relative href has
\* scheme "" and host "". Url gives the URL without query and fragment.
Url(scheme, host, name, ext) ==
    [scheme |-> scheme, host |-> host, name |-> name, ext |-> ext,
     query |-> "", fragment |-> ""]

WithQuery(u, query) == [u EXCEPT !.query = query]

WithFragment(u, fragment) == [u EXCEPT !.fragment = fragment]

\* No URL yet.
NoUrl == Url("", "", "", "")

\* httpx refuses a URL whose scheme is not http/https before any I/O
\* (httpx.UnsupportedProtocol, raised out of client.get).
IsMalformed(u) == u.scheme \notin {"http", "https"}

\* The pages and files of the crawled site.
IndexHtml == Url("https", "a", "index", "html")
PageHtm == Url("https", "a", "page", "htm")
DocPdf == Url("https", "a", "doc", "pdf")
ListCsv == Url("https", "a", "list", "csv")
LogoPng == Url("https", "a", "logo", "png")
CrawlURLs == { IndexHtml, PageHtm, DocPdf, ListCsv, LogoPng }

\* What an anchor's href may be: the pages and the spreadsheet by their
\* absolute URLs, the PDF by a relative reference.
Hrefs == { IndexHtml, PageHtm, ListCsv, Url("", "", "doc", "pdf") }

\* A page whose anchors carry fragments: the PDF as a whole and its second
\* page, and the page's own top.
AnchorsHtml == Url("https", "a", "anchors", "html")
AnchorHrefs ==
    { Url("", "", "doc", "pdf"),
      WithFragment(Url("", "", "doc", "pdf"), "page=2"),
      WithFragment(AnchorsHtml, "top") }
AnchorURLs ==
    { AnchorsHtml, WithFragment(AnchorsHtml, "top"),
      WithFragment(DocPdf, "page=2") }

\* builtin.py: the start_urls of the five sources get_builtin_sources
\* returns, and a circular of the kind their allow patterns are written for.
BuiltinSeeds ==
    [sebi |->
        << Url("https", "www.sebi.gov.in", "investors", "html"),
           Url("https", "www.sebi.gov.in", "investors/educational-booklets",
               "html"),
           Url("https", "www.sebi.gov.in", "legal/circulars/", "") >>,
     nse |->
        << Url("https", "www.nseindia.com", "invest", ""),
           Url("https", "www.nseindia.com", "education/ncfm", "") >>,
     amfi |->
        << Url("https", "www.amfiindia.com", "investor-corner", ""),
           Url("https", "www.amfiindia.com", "investor-awareness", "") >>,
     rbi_sgb |->
        << WithQuery(Url("https", "www.rbi.org.in", "Scripts/FAQsView",
                         "aspx"), "Id=138"),
           WithQuery(Url("https", "www.rbi.org.in",
                         "Scripts/BS_ViewMasCirculardetails", "aspx"),
                     "Id=5223") >>,
     income_tax |->
        << Url("https", "incometaxindia.gov.in",
               "Pages/communications/circulars", "aspx"),
           Url("https", "incometaxindia.gov.in",
               "Pages/communications/notifications", "aspx"),
           Url("https", "www.incometax.gov.in",
               "iec/foportal/help/income-tax-slabs", "") >>]

SebiCircularPdf == Url("https", "www.sebi.gov.in", "legal/circulars/c1", "pdf")

BuiltinURLs ==
    UNION { { BuiltinSeeds[n][i] : i \in 1..Len(BuiltinSeeds[n]) } :
              n \in DOMAIN BuiltinSeeds }
    \cup { SebiCircularPdf }

\* URLs the direct callers of fetch use: two well-formed, one malformed.
FetchURLs ==
    { Url("https", "a", "doc", "pdf"),
      Url("https", "a", "list", "csv"),
      Url("htp", "a", "bad", "pdf") }

\* ------------------------------------------------------------ the server
\* Validators a server may send.
ETags == {None, "e1"}
LastMods == {None, "m1"}
\* Status codes a server may answer with.
Statuses == {200, 304, 404, 429, 503}
\* A body is its bytes (b"" or some data) and the hrefs of its anchors.
Body(data, hrefs) == [data |-> data, hrefs |-> hrefs]
EmptyBody == Body("", << >>)
PlainBody == Body("%", << >>)

Response(status, etag, lm, body) ==
    [status |-> status, etag |-> etag, last_modified |-> lm, content |-> body]

\* What a server may answer to a direct fetch.
FetchResponses ==
    { Response(s, e, m, b) : s \in Statuses, e \in ETags, m \in LastMods,
                             b \in {EmptyBody, PlainBody} }

VARIABLES
    cache,        \* the rows of the SQLite table cache(url PRIMARY KEY, ...)
    now,          \* the clock datetime.now() reads
    fpc,          \* where fetch is: idle, get, sleep, returned, raised
    furl,         \* fetch's url argument
    fmax,         \* fetch's max_retries argument
    attempt,      \* the loop variable of `for attempt in range(max_retries)`
    headers,      \* the request headers built from the cache entry
    result,       \* what fetch returned (None or a dict) or the exception raised
    gets,         \* GET requests issued by the current fetch call
    sleeps,       \* delays slept by the current fetch call, in order
    outcome,      \* how the latest attempt of the current call ended
    last_sent,    \* per URL, the last non-304 response a server sent for it
    robots_cache, \* RobotsChecker._robots_cache: origin -> parser (None: no key)
    robots_log,   \* per origin, the robots.txt downloads and how the last ended
    robots_call,  \* the latest is_allowed call: its url and what it returned
    config,       \* the spider's SourceConfig
    arg_max_pages,\* the max_pages argument of crawl (None: not given)
    cpc,          \* where crawl is: start, loop, fetching, returned
    max_pages,    \* crawl's local max_pages
    queue,        \* crawl's BFS queue of (url, depth)
    cur,          \* the dequeued entry whose fetch crawl awaits
    visited_urls, \* GenericSpider.visited_urls
    processed_count, \* GenericSpider.processed_count
    documents,    \* crawl's documents list
    fetch_calls,  \* the (url, depth) of each fetcher.fetch call crawl made
    record_errors,\* URLs "Error creating document record for" was printed for
    sp_call,      \* the latest should_process_url call: its url and result
    id_calls,     \* the generate_document_id calls made: arguments and id
    ft_call,      \* the latest url_filetype call: its url and result
    date_call,    \* the latest parse_date_string call: its string and result
    user_agent,   \* AsyncFetcher.user_agent
    spc,          \* DocumentStorage: none (not constructed), ready, raised
    fs_dirs,      \* the directories that exist under the output location
    fs_files,     \* storage path -> the bytes of the file there (None: no file)
    catalog,      \* the lines of catalog.jsonl, in file order
    save_call,    \* the latest save_document call and how it ended
    hpc,          \* where _harvest_async is
    dry_run,      \* the --dry-run flag
    source_names, \* the sources to harvest, in order
    source_idx,   \* the position of `for source_name in source_names`
    to_save,      \* the documents the save loop has still to go through
    saved_count,  \* saved_count of the current source
    total_documents \* total_documents

fvars == << cache, now, fpc, furl, fmax, attempt, headers, result, gets,
            sleeps, outcome, last_sent >>

rvars == << robots_cache, robots_log, robots_call >>

cvars == << config, arg_max_pages, cpc, max_pages, queue, cur, visited_urls,
            processed_count, documents, fetch_calls, record_errors >>

pvars == << sp_call, id_calls, ft_call, date_call, user_agent >>

svars == << spc, fs_dirs, fs_files, catalog, save_call >>

hvars == << hpc, dry_run, source_names, source_idx, to_save, saved_count,
            total_documents >>

\* What a crawl, a fetch or a robots check on its own leaves alone.
xvars == << pvars, svars, hvars >>

vars == << fvars, rvars, cvars, pvars, svars, hvars >>

\* ------------------------------------------------------------ the cache
CacheEntry(url, etag, lm, status, stored_at) ==
    [url |-> url, etag |-> etag, last_modified |-> lm, status |-> status,
     stored_at |-> stored_at]

\* _get_cache_entry: SELECT ... WHERE url = ?; fetchone() gives a row or None.
get_cache_entry(rows, url) ==
    IF \E r \in rows : r.url = url
    THEN CHOOSE r \in rows : r.url = url
    ELSE NoneObj

\* A plain INSERT: what the statement would do without OR REPLACE on a table
\* without the PRIMARY KEY.
set_cache_entry_insert(rows, entry) == rows \cup {entry}

\* _set_cache_entry: INSERT OR REPLACE on the primary key url.
set_cache_entry(rows, entry) ==
    {r \in rows : r.url # entry.url} \cup {entry}

\* headers = {"User-Agent": self.user_agent}, and the conditional headers
\* the cache entry gives.
RequestHeaders(cache_entry) ==
    [user_agent |-> user_agent,
     if_none_match |->
        IF cache_entry # NoneObj /\ cache_entry.etag # None
        THEN cache_entry.etag ELSE None,
     if_modified_since |->
        IF cache_entry # NoneObj /\ cache_entry.last_modified # None
        THEN cache_entry.last_modified ELSE None]

NoHeaders ==
    [user_agent |-> None, if_none_match |-> None, if_modified_since |-> None]

\* datetime.now(): each read is later than the one before, up to MaxClock.
Tick(t) == IF t < MaxClock THEN t + 1 ELSE t

\* 2 ** attempt
RECURSIVE Pow2(_)
Pow2(n) == IF n = 0 THEN 1 ELSE 2 * Pow2(n - 1)

\* delay = 2 ** attempt
BackoffDelay(a) == Pow2(a)

\* The handlers sleep and retry while attempt < max_retries - 1.
\* Retrying also on the last attempt:
MayRetryAlways(a, n) == a < n

MayRetry(a, n) == a < n - 1

\* client.get raises httpx.HTTPStatusError only through
\* response.raise_for_status(), which fetch never calls: no status raises,
\* and the `except httpx.HTTPStatusError` handler is never entered.
RaisesHTTPStatusError(resp) == FALSE

\* ------------------------------------------------------------ fetch
\* How an attempt ends: with a response or with client.get raising.
NoOutcome == [kind |-> "none"]
Answered(resp) == [kind |-> "response", status |-> resp.status]
Raised(exc) == [kind |-> "exception", exc |-> exc]

\* fetch(url, max_retries): read the cache entry, build the headers, enter
\* the loop; range(0) is empty and falls through to `return None`.
FetchEnter(u, n) ==
    /\ furl' = u
    /\ fmax' = n
    /\ headers' = RequestHeaders(get_cache_entry(cache, u))
    /\ attempt' = 0
    /\ gets' = 0
    /\ sleeps' = << >>
    /\ outcome' = NoOutcome
    /\ IF n > 0
       THEN fpc' = "get" /\ result' = NoneObj
       ELSE fpc' = "returned" /\ result' = NoneObj
    /\ UNCHANGED << cache, now, last_sent >>

\* The result dict of a 304.
NotModifiedResult(u, resp) ==
    [kind |-> "dict", url |-> u, status_code |-> 200, content |-> NoneObj,
     cached |-> TRUE]

\* The result dict of any other response.
FreshResult(u, resp) ==
    [kind |-> "dict", url |-> u, status_code |-> resp.status,
     content |-> resp.content, cached |-> FALSE]

\* An exception leaves fetch, or is slept on and retried.
Handle(exc, retry) ==
    IF retry
    THEN /\ fpc' = "sleep"
         /\ result' = NoneObj
    ELSE /\ fpc' = "raised"
         /\ result' = [kind |-> "exception", exc |-> exc]

\* A 304 answer: the result is returned, the cache is not written.
\* Writing the entry again on a 304:
On304Upsert(resp) ==
    /\ cache' = set_cache_entry(cache,
                    CacheEntry(furl, resp.etag, resp.last_modified, 304, now))
    /\ now' = Tick(now)
    /\ fpc' = "returned"
    /\ result' = NotModifiedResult(furl, resp)

On304(resp) ==
    /\ fpc' = "returned"
    /\ result' = NotModifiedResult(furl, resp)
    /\ UNCHANGED << cache, now >>

\* Any other answer: CacheEntry(url, etag, last_modified, status) stamped
\* with datetime.now() is upserted and the response returned.
OnResponse(resp) ==
    /\ cache' = set_cache_entry(cache,
                    CacheEntry(furl, resp.etag, resp.last_modified,
                               resp.status, now))
    /\ now' = Tick(now)
    /\ fpc' = "returned"
    /\ result' = FreshResult(furl, resp)

\* One pass of the loop body with the server answering resp.
ClientGetResponse(responses) ==
    /\ fpc = "get"
    /\ ~IsMalformed(furl)
    /\ \E resp \in responses :
        /\ gets' = gets + 1
        /\ outcome' = Answered(resp)
        /\ last_sent' = IF resp.status # 304
                        THEN [last_sent EXCEPT ![furl] =
                                [etag |-> resp.etag,
                                 last_modified |-> resp.last_modified,
                                 status |-> resp.status]]
                        ELSE last_sent
        /\ IF RaisesHTTPStatusError(resp)
           THEN \* except httpx.HTTPStatusError
                /\ Handle("HTTPStatusError",
                          resp.status \in RetryableStatuses
                            /\ MayRetry(attempt, fmax))
                /\ UNCHANGED << cache, now >>
           ELSE IF resp.status = 304
           THEN On304(resp)
           ELSE OnResponse(resp)
    /\ UNCHANGED << furl, fmax, attempt, headers, sleeps >>

\* What client.get raises: UnsupportedProtocol for a malformed URL (always,
\* before any I/O), a network failure for a well-formed one (sometimes).
GetException(u) ==
    IF IsMalformed(u) THEN "UnsupportedProtocol" ELSE "ConnectError"

\* One pass of the loop body with client.get raising.  except Exception.
ClientGetRaises ==
    /\ fpc = "get"
    /\ gets' = gets + 1
    /\ outcome' = Raised(GetException(furl))
    /\ Handle(GetException(furl), MayRetry(attempt, fmax))
    /\ UNCHANGED << cache, now, furl, fmax, attempt, headers, sleeps, last_sent >>

\* await asyncio.sleep(delay); continue.  The next pass runs if range() has
\* another value, else the loop ends and fetch falls through to `return None`.
BackoffSleep ==
    /\ fpc = "sleep"
    /\ sleeps' = Append(sleeps, BackoffDelay(attempt))
    /\ attempt' = attempt + 1
    /\ fpc' = IF attempt + 1 < fmax THEN "get" ELSE "returned"
    /\ UNCHANGED << cache, now, furl, fmax, headers, result, gets, outcome,
                    last_sent >>


\* ------------------------------------------------------------ robots.txt
\* base_url = f"{parsed.scheme}://{parsed.netloc}"
Origin(u) == << u.scheme, u.host >>

\* URLs is_allowed is called with directly: two origins, and one of a scheme
\* urllib cannot open.
RobotsURLs ==
    { Url("https", "a", "doc", "pdf"),
      Url("https", "a", "list", "csv"),
      Url("https", "b", "data", "csv"),
      Url("htp", "a", "bad", "pdf") }

\* Every URL of the model.
AllURLs ==
    FetchURLs \cup RobotsURLs \cup CrawlURLs \cup AnchorURLs \cup BuiltinURLs

\* The user agent's rules of a parsed robots.txt: the path names it
\* disallows.
RuleSets == { {}, {"doc"} }

\* How rp.read() can end: the file is downloaded and parsed into rules, the
\* server answers an HTTP error (urllib.error.HTTPError, which read()
\* handles itself), the download fails (URLError: raised) or the body is not
\* UTF-8 (UnicodeDecodeError: raised).
ReadOk(rules) == [kind |-> "ok", code |-> 200, rules |-> rules]
ReadHTTPError(code) == [kind |-> "HTTPError", code |-> code, rules |-> {}]
ReadRaises(exc) == [kind |-> exc, code |-> 0, rules |-> {}]

ReadOutcomes(origin) ==
    IF origin[1] \notin {"http", "https"}
    THEN { ReadRaises("URLError") }
    ELSE { ReadOk(rs) : rs \in RuleSets }
         \cup { ReadHTTPError(c) : c \in {403, 404, 500} }
         \cup { ReadRaises("URLError"), ReadRaises("UnicodeDecodeError") }

\* urllib.robotparser.RobotFileParser(): nothing read yet.
RobotFileParser ==
    [disallow_all |-> FALSE, allow_all |-> FALSE, last_checked |-> 0,
     rules |-> {}]

\* rp.read() inside try/except Exception: pass.  The standard library sets
\* disallow_all on 401/403 and allow_all on any other 4xx; parse() stamps
\* last_checked; an exception leaves the parser as constructed.
read(rp, o) ==
    IF o.kind = "HTTPError"
    THEN IF o.code \in {401, 403} THEN [rp EXCEPT !.disallow_all = TRUE]
         ELSE IF o.code >= 400 /\ o.code < 500
              THEN [rp EXCEPT !.allow_all = TRUE]
              ELSE rp
    ELSE IF o.kind = "ok"
         THEN [rp EXCEPT !.last_checked = 1, !.rules = o.rules]
         ELSE rp

\* robot_parser.can_fetch(user_agent, url): the standard library answers
\* False for a parser that has read nothing ("until the robots.txt file has
\* been read or found not to exist, we must assume that no url is
\* allowable").  It does not raise, so the `except: return True` around it
\* is never taken.
can_fetch(rp, u) ==
    IF rp.disallow_all THEN FALSE
    ELSE IF rp.allow_all THEN TRUE
    ELSE IF rp.last_checked = 0 THEN FALSE
    ELSE u.name \notin rp.rules

\* Treating a parser whose read failed as not cached (so it is read again):
InRobotsCacheIfRead(rc, origin) ==
    rc[origin] # NoneObj /\ rc[origin].last_checked # 0

\* base_url in self._robots_cache
InRobotsCache(rc, origin) == rc[origin] # NoneObj

\* The cache after is_allowed(u) when a read, if one is made, ends with o.
RobotsCacheAfter(rc, u, o) ==
    IF InRobotsCache(rc, Origin(u))
    THEN rc
    ELSE [rc EXCEPT ![Origin(u)] = read(RobotFileParser, o)]

\* The download log after is_allowed(u).
RobotsLogAfter(rc, lg, u, o) ==
    IF InRobotsCache(rc, Origin(u))
    THEN lg
    ELSE [lg EXCEPT ![Origin(u)] =
            [reads |-> IF @.reads < 2 THEN @.reads + 1 ELSE @.reads,
             outcome |-> o.kind, code |-> o.code]]

\* is_allowed(u, agent): the whole call (it is synchronous). The parser is
\* asked can_fetch(agent, u); the rules of the model are the same for every
\* agent.
is_allowed_as(u, agent) ==
    \E o \in ReadOutcomes(Origin(u)) :
        /\ robots_cache' = RobotsCacheAfter(robots_cache, u, o)
        /\ robots_log' = RobotsLogAfter(robots_cache, robots_log, u, o)
        /\ robots_call' = [url |-> u,
                           ret |-> can_fetch(robots_cache'[Origin(u)], u),
                           read |-> ~InRobotsCache(robots_cache, Origin(u)),
                           user_agent |-> agent]

\* is_allowed(u): user_agent takes the default of the parameter.
is_allowed(u) == is_allowed_as(u, DefaultUserAgent)

\* is_allowed called directly.
IsAllowedCall == \E u \in RobotsURLs : is_allowed(u)

AllOrigins == { Origin(u) : u \in AllURLs }

InitRobots ==
    /\ robots_cache = [o \in AllOrigins |-> NoneObj]
    /\ robots_log = [o \in AllOrigins |->
                        [reads |-> 0, outcome |-> "none", code |-> 0]]
    /\ robots_call = [url |-> NoUrl, ret |-> TRUE, read |-> FALSE,
                      user_agent |-> None]


\* ------------------------------------------------------------ the frontier
\* text.lower(), on the extensions of the model.
Lower(e) == IF e = "PDF" THEN "pdf" ELSE e

\* The extension a text ends with ("" if it ends with none): what
\* endswith('.pdf') and the like look at.
SuffixOf(text) ==
    IF text = "f=a.pdf" THEN "pdf"
    ELSE IF text = "x.csv" THEN "csv"
    ELSE ""

\* The extension the whole URL string ends with.
UrlSuffix(u) ==
    IF u.fragment # "" THEN SuffixOf(u.fragment)
    ELSE IF u.query # "" THEN SuffixOf(u.query)
    ELSE u.ext

\* urlparse(url).path: the URL's path without its query and fragment; its
\* suffix is the extension of the last segment.
PathSuffix(u) == u.ext

\* url_filetype: by the suffix of the lowercased path.
url_filetype(u) ==
    LET path == Lower(PathSuffix(u)) IN
    IF path = "pdf" THEN "pdf"
    ELSE IF path = "csv" THEN "csv"
    ELSE IF path = "xlsx" THEN "xlsx"
    ELSE IF path = "xls" THEN "xls"
    ELSE IF path \in {"html", "htm"} THEN "html"
    ELSE None

\* urllib.parse.urljoin(base, href): an absolute href stands, a relative one
\* takes the base's scheme and host.
urljoin(base, href) ==
    IF href.scheme # "" THEN href
    ELSE [href EXCEPT !.scheme = base.scheme, !.host = base.host]

\* normalize_url(url): the URL without its fragment.
normalize_url(u) == [u EXCEPT !.fragment = ""]

\* canonical_url(url, base_url)
canonical_url(href, base) == urljoin(base, href)

\* extract_html_links(content, base_url): every anchor's href, resolved.
extract_html_links(content, base) ==
    [i \in 1..Len(content.hrefs) |-> urljoin(base, content.hrefs[i])]

\* Taking every URL for allowed:
is_url_allowed_always(cfg, u) == TRUE

\* A compiled pattern is the set of URLs regex.search finds a match in.
\* SourceConfig.is_url_allowed
is_url_allowed(cfg, u) ==
    IF cfg.allow_patterns = << >> THEN TRUE
    ELSE \E i \in 1..Len(cfg.allow_patterns) : u \in cfg.allow_patterns[i]

\* SourceConfig.is_url_denied
is_url_denied(cfg, u) ==
    IF cfg.deny_patterns = << >> THEN FALSE
    ELSE \E i \in 1..Len(cfg.deny_patterns) : u \in cfg.deny_patterns[i]

\* An allow match settling the matter before the deny list is looked at:
should_process_url_allow_wins(cfg, u) ==
    IF cfg.allow_patterns # << >> /\ is_url_allowed(cfg, u) THEN TRUE
    ELSE ~is_url_denied(cfg, u)

\* SourceConfig.should_process_url
should_process_url(cfg, u) == is_url_allowed(cfg, u) /\ ~is_url_denied(cfg, u)

\* SourceConfig.__post_init__: the default filetypes.
DefaultFiletypes == {"pdf", "csv", "xlsx", "xls", "html"}

SourceConfig(start_urls, allow, deny, max_depth, pages) ==
    [start_urls |-> start_urls, allow_patterns |-> allow,
     deny_patterns |-> deny, max_depth |-> max_depth, max_pages |-> pages,
     filetypes |-> DefaultFiletypes]

\* builtin.py: the hosts of the model in which the host part of a source's
\* allow pattern is found (sebi\.gov\.in, nseindia\.com, ...).
BuiltinHosts ==
    [sebi |-> {"www.sebi.gov.in"},
     nse |-> {"www.nseindia.com"},
     amfi |-> {"www.amfiindia.com"},
     rbi_sgb |-> {"www.rbi.org.in"},
     income_tax |-> {"incometaxindia.gov.in", "www.incometax.gov.in"}]

\* The compiled pattern r"<host>/.+\.(pdf|csv|xlsx)$": regex.search goes over
\* the whole URL string, so the extension is the one the string ends with.
DocumentPattern(hosts) ==
    { u \in AllURLs : /\ u.host \in hosts
                      /\ u.name # ""
                      /\ UrlSuffix(u) \in {"pdf", "csv", "xlsx"} }

\* get_builtin_sources(): each source with its seeds, its one allow pattern,
\* its deny pattern if it has one (login|careers, live market: found in no
\* URL of the model), max_depth 2 and its max_pages.
BuiltinSources ==
    [n \in DOMAIN BuiltinSeeds |->
        SourceConfig(BuiltinSeeds[n],
                     << DocumentPattern(BuiltinHosts[n]) >>,
                     IF n \in {"sebi", "nse"} THEN << {} >> ELSE << >>,
                     2,
                     IF n = "sebi" THEN 250 ELSE 200)]

\* The seed lists, allow lists and deny lists of the sources crawled.
SeedLists == { << IndexHtml >>, << IndexHtml, LogoPng, IndexHtml >> }
\* An allow-all source with the default filetypes, and one with an allow
\* pattern (it matches all but the image), a deny pattern (it matches the
\* second page) and filetypes given as PDFs and pages.
PatternLists ==
    { << << >>, << >>, DefaultFiletypes >>,
      << << {IndexHtml, PageHtm, DocPdf, ListCsv} >>, << {PageHtm} >>,
         {"pdf", "html"} >> }

\* A source constructed with filetypes=ft.
WithFiletypes(cfg, ft) == [cfg EXCEPT !.filetypes = ft]

Configs ==
    { WithFiletypes(SourceConfig(su, pl[1], pl[2], d, MaxPages), pl[3]) :
        su \in SeedLists, pl \in PatternLists, d \in 0..MaxDepth }

\* What the site's server may answer to the crawler.
LinkLists ==
    UNION { [1..n -> Hrefs] : n \in 0..MaxLinks }
\* A 200 carries a body (an HTML page's has anchors); the site sends the
\* same validator with everything.
AnchorLinkLists ==
    UNION { [1..n -> AnchorHrefs] : n \in 0..MaxLinks }

CrawlResponses(u) ==
    { Response(200, "e1", None, b) :
        b \in {EmptyBody} \cup
              IF u.ext \in {"html", "htm"}
              THEN { Body("%", l) :
                       l \in IF u.name = AnchorsHtml.name
                             THEN AnchorLinkLists ELSE LinkLists }
              ELSE { PlainBody } }
    \cup { Response(s, "e1", None, EmptyBody) : s \in {304, 503} }

\* max_pages = max_pages or self.config.max_pages; a given 0 is falsy.
EffectiveMaxPages(arg, cfg) ==
    IF arg # NoneInt /\ arg # 0 THEN arg ELSE cfg.max_pages

\* crawl(max_pages): the locals before the loop.
CrawlStart ==
    /\ cpc = "start"
    /\ max_pages' = EffectiveMaxPages(arg_max_pages, config)
    /\ documents' = << >>
    /\ queue' = [i \in 1..Len(config.start_urls) |->
                    [url |-> config.start_urls[i], depth |-> 0]]
    /\ cpc' = "loop"
    /\ UNCHANGED << config, arg_max_pages, cur, visited_urls,
                    processed_count, fetch_calls, record_errors >>

\* No entry is being fetched.
NoEntry == [url |-> NoUrl, depth |-> 0]

\* A loop that makes one pass only:
LoopRunsOnce ==
    queue # << >> /\ processed_count < max_pages /\ fetch_calls = << >>

\* while queue and self.processed_count < max_pages
LoopRuns == queue # << >> /\ processed_count < max_pages

\* Skipping only on depth:
SkipEntryDepthOnly(visited, cfg, url, depth) == depth > cfg.max_depth

\* Skipping only on visited:
SkipEntryVisitedOnly(visited, cfg, url, depth) == url \in visited

\* if url in self.visited_urls or depth > self.config.max_depth: continue
SkipEntry(visited, cfg, url, depth) ==
    url \in visited \/ depth > cfg.max_depth

\* Going by the robots.txt answer alone:
ApprovedByRobotsOnly(robots_ok, cfg, url) == robots_ok

\* if not self.robots_checker.is_allowed(url): continue
\* if not self.config.should_process_url(url): continue
Approved(robots_ok, cfg, url) == robots_ok /\ should_process_url(cfg, url)

\* A pass that puts a skipped entry back at the end of the queue:
DequeueRequeuesSkipped ==
    /\ cpc = "loop"
    /\ LoopRuns
    /\ LET url == Head(queue).url
           depth == Head(queue).depth
       IN
       IF SkipEntry(visited_urls, config, url, depth)
       THEN /\ queue' = Append(Tail(queue), Head(queue))
            /\ UNCHANGED << fvars, rvars, visited_urls, fetch_calls, cpc,
                            cur >>
       ELSE /\ queue' = Tail(queue)
            /\ is_allowed(url)
            /\ IF ~Approved(robots_call'.ret, config, url)
               THEN UNCHANGED << fvars, visited_urls, fetch_calls, cpc,
                                 cur >>
               ELSE /\ visited_urls' = visited_urls \cup {url}
                    /\ cur' = Head(queue)
                    /\ fetch_calls' = Append(fetch_calls, Head(queue))
                    /\ FetchEnter(url, DefaultMaxRetries)
                    /\ cpc' = "fetching"
    /\ UNCHANGED << config, arg_max_pages, max_pages, processed_count,
                    documents, record_errors >>

\* One pass of the loop up to the await: pop the head, skip it (visited, too
\* deep, denied by robots.txt, denied by the patterns) or mark it visited
\* and call fetcher.fetch(url).
Dequeue ==
    /\ cpc = "loop"
    /\ LoopRuns
    /\ LET url == Head(queue).url
           depth == Head(queue).depth
       IN
       /\ queue' = Tail(queue)
       /\ IF SkipEntry(visited_urls, config, url, depth)
          THEN /\ UNCHANGED << fvars, rvars, visited_urls, fetch_calls, cpc,
                               cur >>
          ELSE /\ is_allowed(url)
               /\ IF ~Approved(robots_call'.ret, config, url)
                  THEN UNCHANGED << fvars, visited_urls, fetch_calls, cpc,
                                    cur >>
                  ELSE /\ visited_urls' = visited_urls \cup {url}
                       /\ cur' = Head(queue)
                       /\ fetch_calls' = Append(fetch_calls, Head(queue))
                       /\ FetchEnter(url, DefaultMaxRetries)
                       /\ cpc' = "fetching"
    /\ UNCHANGED << config, arg_max_pages, max_pages, processed_count,
                    documents, record_errors >>

\* Putting a page's links in front of the queue (depth-first):
EnqueueFront(q, links, base, depth, visited) ==
    SelectSeq([i \in 1..Len(links) |->
                  [url |-> canonical_url(links[i], base), depth |-> depth + 1]],
              LAMBDA e : e.url \notin visited) \o q

\* Queueing every link of the page, visited or not:
EnqueueAll(q, links, base, depth, visited) ==
    q \o [i \in 1..Len(links) |->
            [url |-> canonical_url(links[i], base), depth |-> depth + 1]]

\* The links of a page that are queued: those not visited yet, one level
\* deeper.
RECURSIVE Enqueue(_, _, _, _, _)
Enqueue(q, links, base, depth, visited) ==
    IF links = << >> THEN q
    ELSE LET canonical_link == canonical_url(Head(links), base) IN
         Enqueue(IF canonical_link \notin visited
                 THEN Append(q, [url |-> canonical_link, depth |-> depth + 1])
                 ELSE q,
                 Tail(links), base, depth, visited)

\* A hash that also takes the time of the call in:
generate_document_id_timed(url, title) == << url, title, now >>

\* generate_document_id: a hash of f"{url}|{title}", kept as the pair.
generate_document_id(url, title) == << url, title >>

\* The title of a document: the PDF's own if it has one, else the last path
\* segment of the URL (its name stands for it).
TitleOf(url, pdf_title) ==
    IF pdf_title # None THEN pdf_title ELSE url.name

\* _create_document_record, when nothing in it raises.
DocumentRecord(url, filetype, title) ==
    [id |-> generate_document_id(url, title), title |-> title,
     source_url |-> url, file_type |-> filetype]

\* Counting every entry whose fetch brought content, pages included:
CountAfterFetch(count, pass) ==
    IF pass \in {"page", "record", "no record"} THEN count + 1 ELSE count

\* self.processed_count after a pass of the loop that took a fetched entry:
\* `self.processed_count += 1` stands only after documents.append(document).
CountAfter(count, pass) ==
    IF pass = "record" THEN count + 1 ELSE count

\* _create_document_record: the record, or None when anything in its try
\* block raised (the except prints the error and returns None).
create_document_record(url, filetype, pdf_title, raises) ==
    IF raises THEN NoneObj
    ELSE DocumentRecord(url, filetype, TitleOf(url, pdf_title))

\* Taking whatever _create_document_record gave for a record:
IsDocumentAlways(document) == TRUE

\* if document
IsDocument(document) == document # NoneObj

\* not content
IsEmpty(content) == content = NoneObj \/ content.data = ""

\* Giving up only on content that is None (b"" passing):
AbandonsOnNoneContent(pc, res) ==
    \/ pc = "raised"
    \/ res = NoneObj
    \/ res.status_code # 200
    \/ res.content = NoneObj

\* The entry is given up: fetch raised (except Exception: continue), or
\* `not response or response['status_code'] != 200`, or `not content`.
Abandons(pc, res) ==
    \/ pc = "raised"
    \/ res = NoneObj
    \/ res.status_code # 200
    \/ IsEmpty(res.content)

\* Taking no filetype for a page:
IsPageNever(filetype) == FALSE

\* if filetype == 'html' (tested before `elif filetype in filetypes`)
IsPage(filetype) == filetype = "html"

\* The rest of the pass, once fetch has returned or raised: give the entry
\* up (exception, status, no content), queue an HTML page's links, or build
\* the record of a document (which yields None if anything raises).
HandleFetched ==
    /\ cpc = "fetching"
    /\ fpc \in {"returned", "raised"}
    /\ fpc' = "idle"
    /\ cpc' = "loop"
    /\ cur' = NoEntry
    /\ furl' = NoUrl
    /\ attempt' = 0
    /\ headers' = NoHeaders
    /\ result' = NoneObj
    /\ gets' = 0
    /\ sleeps' = << >>
    /\ outcome' = NoOutcome
    /\ LET filetype == url_filetype(cur.url) IN
       IF Abandons(fpc, result)
       THEN /\ processed_count' = CountAfter(processed_count, "abandoned")
            /\ UNCHANGED << queue, documents, record_errors >>
       ELSE IF IsPage(filetype)
       THEN /\ queue' = Enqueue(queue,
                                extract_html_links(result.content, cur.url),
                                cur.url, cur.depth, visited_urls)
            /\ processed_count' = CountAfter(processed_count, "page")
            /\ UNCHANGED << documents, record_errors >>
       ELSE IF filetype \in config.filetypes
       THEN \E pdf_title \in {None, "T"}, raises \in BOOLEAN :
              /\ filetype # "pdf" => pdf_title = None
              /\ LET document == create_document_record(cur.url, filetype,
                                                         pdf_title, raises)
                 IN IF IsDocument(document)
                    THEN /\ documents' = Append(documents, document)
                         /\ processed_count' =
                               CountAfter(processed_count, "record")
                    ELSE /\ processed_count' =
                               CountAfter(processed_count, "no record")
                         /\ UNCHANGED documents
              /\ record_errors' = IF raises
                                  THEN record_errors \cup {cur.url}
                                  ELSE record_errors
            /\ UNCHANGED queue
       ELSE UNCHANGED << queue, documents, processed_count, record_errors >>
    /\ UNCHANGED << cache, now, fmax, last_sent, rvars, config, arg_max_pages,
                    max_pages, visited_urls, fetch_calls >>

\* return documents
CrawlReturn ==
    /\ cpc = "loop"
    /\ ~LoopRuns
    /\ cpc' = "returned"
    /\ UNCHANGED << config, arg_max_pages, max_pages, queue, cur,
                    visited_urls, processed_count, documents, fetch_calls,
                    record_errors >>

\* GenericSpider(config, fetcher, robots_checker), and crawl about to be
\* called with or without a max_pages argument.
InitCrawl ==
    /\ config \in Configs
    /\ arg_max_pages \in {NoneInt} \cup 0..MaxPages
    /\ cpc = "start"
    /\ max_pages = 0
    /\ queue = << >>
    /\ cur = NoEntry
    /\ visited_urls = {}
    /\ processed_count = 0
    /\ documents = << >>
    /\ fetch_calls = << >>
    /\ record_errors = {}

\* ------------------------------------------- should_process_url called
\* A compiled pattern, as the set of URLs it matches: the PDFs-and-sheets
\* pattern, the pattern of doc.pdf alone, and one that matches nothing.
Patterns == { {DocPdf, ListCsv}, {DocPdf}, {} }

PatternSeqs == UNION { [1..n -> Patterns] : n \in 0..MaxPatterns }

\* No call yet.
NoShouldProcessCall == [url |-> NoUrl, ret |-> FALSE]

\* config.should_process_url(u), called on its own.
ShouldProcessCall ==
    /\ \E u \in CrawlURLs :
            sp_call' = [url |-> u, ret |-> should_process_url(config, u)]
    /\ UNCHANGED << id_calls, ft_call, date_call, user_agent >>

\* ------------------------------------------- generate_document_id called
\* Titles a caller passes: a PDF's own title and a title taken from the URL.
IdTitles == { "T", "doc" }

\* generate_document_id(url, title), called on its own at any time.
GenerateDocumentIdCall ==
    /\ Cardinality(id_calls) < MaxIdCalls
    /\ \E u \in CrawlURLs, title \in IdTitles :
            id_calls' = id_calls \cup
                { [url |-> u, title |-> title, at |-> now,
                   id |-> generate_document_id(u, title)] }
    /\ UNCHANGED << sp_call, ft_call, date_call, user_agent >>

\* Time passes between two calls.
ClockTick ==
    /\ now < MaxClock
    /\ now' = Tick(now)
    /\ UNCHANGED << cache, fpc, furl, fmax, attempt, headers, result, gets,
                    sleeps, outcome, last_sent >>

\* ------------------------------------------------- url_filetype called
\* URLs of every extension the function knows, of an unknown one, of none,
\* and of an upper-case one, with and without a query string and a fragment
\* (some of which end like a file name).
FiletypeURLs ==
    { WithFragment(WithQuery(Url("https", "a", name, ext), query), fragment) :
        name \in {"doc", "list"},
        ext \in {"pdf", "csv", "xlsx", "xls", "html", "htm", "png", "", "PDF"},
        query \in {"", "v=1", "f=a.pdf"},
        fragment \in {"", "top", "x.csv"} }

\* url_filetype(u), called on its own.
UrlFiletypeCall ==
    /\ \E u \in FiletypeURLs :
            ft_call' = [url |-> u, ret |-> url_filetype(u)]
    /\ UNCHANGED << sp_call, id_calls, date_call, user_agent >>

\* --------------------------------------------- parse_date_string called
\* A date string is a sequence of tokens: runs of digits (their value v and
\* their width w, "03" being 3 of width 2) with one separator character
\* between two runs.
Num(v, w) == [kind |-> "num", v |-> v, w |-> w, c |-> ""]

Sep(c) == [kind |-> "sep", v |-> 0, w |-> 0, c |-> c]

\* The regular expressions of `patterns`, in the order of the list: each is
\* \b, groups of digits of the given widths with [-\/] between, \b.
PatternYMD == << {4}, {1, 2}, {1, 2} >>
PatternDMY == << {1, 2}, {1, 2}, {4} >>
PatternYear == << {4} >>
PatternMY == << {1, 2}, {4} >>
DatePatterns == << PatternYMD, PatternDMY, PatternYear, PatternMY >>

\* The pattern matches the tokens from position i on.
MatchesAt(pattern, str, i) ==
    \A k \in 1..Len(pattern) :
        LET j == i + 2 * (k - 1) IN
        /\ j <= Len(str)
        /\ str[j].kind = "num"
        /\ str[j].w \in pattern[k]
        /\ k > 1 => str[j - 1].kind = "sep" /\ str[j - 1].c \in {"-", "/"}

\* re.search(pattern, str): the groups of the leftmost match, << >> if there
\* is none.
re_search(pattern, str) ==
    LET starts == { i \in 1..Len(str) : MatchesAt(pattern, str, i) } IN
    IF starts = {} THEN << >>
    ELSE LET i == CHOOSE m \in starts : \A n \in starts : m <= n IN
         [k \in 1..Len(pattern) |-> str[i + 2 * (k - 1)].v]

IsLeap(year) ==
    year % 4 = 0 /\ (year % 100 # 0 \/ year % 400 = 0)

DaysInMonth(year, month) ==
    IF month = 2 THEN (IF IsLeap(year) THEN 29 ELSE 28)
    ELSE IF month \in {4, 6, 9, 11} THEN 30
    ELSE 31

ValueError == [exc |-> "ValueError"]

\* datetime.date(year, month, day)
date(year, month, day) ==
    IF /\ year \in 1..9999
       /\ month \in 1..12
       /\ day \in 1..DaysInMonth(year, month)
    THEN [year |-> year, month |-> month, day |-> day]
    ELSE ValueError

IsDate(r) == "year" \in DOMAIN r

\* The body of `if match:` for the groups of a match: a date that is
\* returned, a ValueError (continue), or nothing (a year outside the range:
\* the loop goes on).
FromGroups(groups) ==
    IF Len(groups) = 3 THEN date(groups[1], groups[2], groups[3])
    ELSE IF Len(groups) = 2 THEN date(groups[2], groups[1], 1)
    ELSE IF 1900 <= groups[1] /\ groups[1] <= 2030 THEN date(groups[1], 1, 1)
    ELSE NoneObj

\* for pattern in patterns: the first date a pattern returns.
RECURSIVE try_patterns(_, _)
try_patterns(patterns, str) ==
    IF patterns = << >> THEN NoneObj
    ELSE LET groups == re_search(Head(patterns), str)
             r == IF groups = << >> THEN NoneObj ELSE FromGroups(groups)
         IN IF IsDate(r) THEN r ELSE try_patterns(Tail(patterns), str)

\* A string the model does not follow dateutil on.
NotModelled == [not_modelled |-> TRUE]

\* dateutil's parser.parse(str, fuzzy=True), on a bare number of four
\* digits: a lone number above 31 is the year, and the month and the day
\* are taken from today (the day clamped to the month's length).
dateutil_parse(str, today) ==
    IF Len(str) = 1 /\ str[1].kind = "num" /\ str[1].w = 4 /\ str[1].v > 31
    THEN LET days == DaysInMonth(str[1].v, today.month) IN
         date(str[1].v, today.month,
              IF today.day > days THEN days ELSE today.day)
    ELSE NotModelled

\* parse_date_string(date_str), called on the day `today`. re.sub keeps the
\* digits, '-' and '/' the strings of the model are made of.
parse_date_string(date_str, today) ==
    IF date_str = << >> THEN NoneObj
    ELSE LET r == try_patterns(DatePatterns, date_str) IN
         IF IsDate(r) THEN r
         ELSE LET parsed_date == dateutil_parse(date_str, today) IN
              IF IsDate(parsed_date) THEN parsed_date
              ELSE IF parsed_date = NotModelled THEN NotModelled
              ELSE NoneObj

\* Years inside and outside [1900, 2030], months, days, separators.
DateYears == {1850, 1900, 2024, 2030, 2031}
DateMonths == {3, 12}
DateDays == {1, 15}
DateSeps == {"-", "/"}

YMDStrings ==
    { << Num(y, 4), Sep(c), Num(m, 2), Sep(c), Num(dd, 2) >> :
        y \in DateYears, m \in DateMonths, dd \in DateDays, c \in DateSeps }

DMYStrings ==
    { << Num(dd, 2), Sep(c), Num(m, 2), Sep(c), Num(y, 4) >> :
        y \in DateYears, m \in DateMonths, dd \in DateDays, c \in DateSeps }

MYStrings ==
    { << Num(m, 2), Sep(c), Num(y, 4) >> :
        y \in DateYears, m \in DateMonths, c \in DateSeps }

YearStrings == { << Num(y, 4) >> : y \in DateYears }

DateStrings ==
    YMDStrings \cup DMYStrings \cup MYStrings \cup YearStrings \cup { << >> }

\* The days a call may be made on.
Todays == { [month |-> 11, day |-> 1], [month |-> 2, day |-> 29] }

\* parse_date_string(s), called on its own.
ParseDateStringCall ==
    /\ \E str \in DateStrings, today \in Todays :
            date_call' = [date_str |-> str,
                          ret |-> parse_date_string(str, today)]
    /\ UNCHANGED << sp_call, id_calls, ft_call, user_agent >>

\* No call of a function of utils.py or extractor.py yet.
NoFiletypeCall == [url |-> NoUrl, ret |-> None]

NoDateCall == [date_str |-> << >>, ret |-> NoneObj]

InitUtils ==
    /\ id_calls = {}
    /\ ft_call = NoFiletypeCall
    /\ date_call = NoDateCall

InitPatterns == sp_call = NoShouldProcessCall /\ InitUtils

\* AsyncFetcher(): user_agent takes its default.
InitAgent == user_agent = DefaultUserAgent

\* What a fetcher may be constructed with: the default and another agent.
UserAgents == { DefaultUserAgent, "other-bot/1.0" }

\* AsyncFetcher(user_agent=...)
InitAnyAgent == user_agent \in UserAgents

\* ------------------------------------------------------------ the storage
\* output_dir, and output_dir/<domain>/<source_org>/<YYYY>: the sources of
\* the model share their domain and organisation, and the year stands still.
OutputDir == "out"
OrgDir == "out/domain/org/year"

\* short_title_from_url: the last path segment without its extension.
short_title_from_url(u) == IF u.name = "" THEN "document" ELSE u.name

\* _generate_storage_path: <type>__<short-title>__undated.<ext> under OrgDir.
generate_storage_path(record) ==
    << record.file_type, short_title_from_url(record.source_url) >>

\* len(content)
ByteLen(content) ==
    IF content.data = "" THEN 0
    ELSE IF content.data \in {"%", "&"} THEN 1
    ELSE 2

\* The bytes save_document is called with directly: two of the same length,
\* one longer.
StorageContents == { Body("%", << >>), Body("&", << >>), Body("%%", << >>) }

\* The records save_document is called with directly: the PDF, the
\* spreadsheet, and a PDF of the same name on another host.
StorageRecords ==
    { DocumentRecord(DocPdf, "pdf", "doc"),
      DocumentRecord(ListCsv, "csv", "list"),
      DocumentRecord(Url("https", "b", "doc", "pdf"), "pdf", "doc") }

StoragePaths == { generate_storage_path(r) : r \in StorageRecords }

\* The disk operation of a save_document call that fails, if any does.
DiskFailures == { "none", "mkdir", "write", "catalog" }

\* No file at a path.
NoFile == NoneObj

\* Writing whatever is on disk:
SameSizeFileExistsNever(files, path, content) == FALSE

\* file_path.exists() and file_path.stat().st_size == len(content)
SameSizeFileExists(files, path, content) ==
    files[path] # NoFile /\ ByteLen(files[path]) = ByteLen(content)

\* json.dump(record.model_dump(), f) + '\n', storage_path set by then.
CatalogLine(record, path) == [record |-> record, storage_path |-> path]

\* _append_to_catalog: open(catalog_path, 'a'); an error is printed and
\* swallowed.
append_to_catalog(lines, line, fails) ==
    IF fails THEN lines ELSE Append(lines, line)

NoSaveCall ==
    [record |-> NoneObj, content |-> NoneObj, dry_run |-> FALSE,
     fail |-> "none", ret |-> "none", wrote |-> FALSE]

SaveCall(record, content, dry, fail, ret, wrote) ==
    [record |-> record, content |-> content, dry_run |-> dry, fail |-> fail,
     ret |-> ret, wrote |-> wrote]

\* file_path.parent.mkdir(parents=True, exist_ok=True) raises (it stands
\* outside the try block) when the directory has to be made and cannot be.
MkdirFails(dirs, fail) == fail = "mkdir" /\ OrgDir \notin dirs

\* save_document(record, content, dry_run) when the disk operation `fail`
\* fails; a failed write leaves the file as it was or, if open() had
\* truncated it already (torn), empty.
save_document(record, content, dry, fail, torn) ==
    LET path == generate_storage_path(record)
        line == CatalogLine(record, path)
    IN
    IF dry
    THEN /\ save_call' = SaveCall(record, content, dry, fail, "True", FALSE)
         /\ UNCHANGED << fs_dirs, fs_files, catalog >>
    ELSE IF MkdirFails(fs_dirs, fail)
    THEN /\ save_call' = SaveCall(record, content, dry, fail, "raised", FALSE)
         /\ UNCHANGED << fs_dirs, fs_files, catalog >>
    ELSE /\ fs_dirs' = fs_dirs \cup {OutputDir, OrgDir}
         /\ IF SameSizeFileExists(fs_files, path, content)
            THEN /\ fs_files' = fs_files
                 /\ catalog' = append_to_catalog(catalog, line,
                                                 fail = "catalog")
                 /\ save_call' =
                        SaveCall(record, content, dry, fail, "True", FALSE)
            ELSE IF fail = "write"
            THEN /\ fs_files' = IF torn
                                THEN [fs_files EXCEPT ![path] = EmptyBody]
                                ELSE fs_files
                 /\ catalog' = catalog
                 /\ save_call' =
                        SaveCall(record, content, dry, fail, "False", FALSE)
            ELSE /\ fs_files' = [fs_files EXCEPT ![path] = content]
                 /\ catalog' = append_to_catalog(catalog, line,
                                                 fail = "catalog")
                 /\ save_call' =
                        SaveCall(record, content, dry, fail, "True", TRUE)

\* DocumentStorage(output_dir): _ensure_output_dir makes the directory,
\* whatever the mode; it raises if the directory cannot be made.
StorageInit(fails) ==
    IF fails /\ OutputDir \notin fs_dirs
    THEN /\ spc' = "raised"
         /\ UNCHANGED fs_dirs
    ELSE /\ spc' = "ready"
         /\ fs_dirs' = fs_dirs \cup {OutputDir}

\* save_document called directly on a constructed DocumentStorage.
SaveDocumentCall ==
    /\ spc = "ready"
    /\ Len(catalog) < MaxCatalog
    /\ \E record \in StorageRecords, content \in StorageContents,
          dry \in BOOLEAN, fail \in DiskFailures, torn \in BOOLEAN :
        /\ torn => fail = "write"
        /\ save_document(record, content, dry, fail, torn)
    /\ UNCHANGED spc

\* DocumentStorage constructed directly.
StorageInitCall ==
    /\ spc = "none"
    /\ \E fails \in BOOLEAN : StorageInit(fails)
    /\ UNCHANGED << fs_files, catalog, save_call >>

\* Nothing on disk, no storage object.
InitStorage ==
    /\ spc = "none"
    /\ fs_dirs = {}
    /\ fs_files = [path \in StoragePaths |-> NoFile]
    /\ catalog = << >>
    /\ save_call = NoSaveCall

\* What an earlier harvest into the same directory left: a PDF and its
\* catalog line.
InitStorageUsed ==
    /\ spc = "none"
    /\ fs_dirs = {OutputDir, OrgDir}
    /\ fs_files = [path \in StoragePaths |->
                      IF path = << "pdf", "doc" >> THEN Body("&", << >>)
                      ELSE NoFile]
    /\ catalog = << CatalogLine(DocumentRecord(DocPdf, "pdf", "doc"),
                               << "pdf", "doc" >>) >>
    /\ save_call = NoSaveCall

\* ------------------------------------------------------------ the harvest
\* The builtin_sources argument of _harvest_async, for sources that give
\* records: a site crawled from its index page one level deep, and a source
\* whose seed is the spreadsheet itself.
HarvestSources ==
    [site |-> SourceConfig(<< IndexHtml >>, << >>, << >>, 1, MaxPages),
     list |-> SourceConfig(<< ListCsv >>, << >>, << >>, 0, MaxPages)]

\* --source: the names given, in order.
SourceNameLists == { << "list", "site" >>, << "site" >> }

\* No harvest is running.
InitNoHarvest ==
    /\ hpc = "idle"
    /\ dry_run = FALSE
    /\ source_names = << >>
    /\ source_idx = 0
    /\ to_save = << >>
    /\ saved_count = 0
    /\ total_documents = 0

\* _harvest_async: fetcher = AsyncFetcher(); robots_checker =
\* RobotsChecker(); storage = DocumentStorage(output_dir).
HarvestStart ==
    /\ hpc = "start"
    /\ \E fails \in BOOLEAN : StorageInit(fails)
    /\ hpc' = IF spc' = "raised" THEN "raised" ELSE "source"
    /\ source_idx' = 1
    /\ total_documents' = 0
    /\ UNCHANGED << fs_files, catalog, save_call, dry_run, source_names,
                    to_save, saved_count >>
    /\ UNCHANGED << fvars, rvars, cvars, pvars >>

\* for source_name in source_names: spider = GenericSpider(config, fetcher,
\* robots_checker); spider.crawl(max_pages) is called.
SourceStart ==
    /\ hpc = "source"
    /\ source_idx <= Len(source_names)
    /\ hpc' = "crawl"
    /\ config' = HarvestSources[source_names[source_idx]]
    /\ arg_max_pages' = MaxPages
    /\ cpc' = "start"
    /\ max_pages' = 0
    /\ queue' = << >>
    /\ cur' = NoEntry
    /\ visited_urls' = {}
    /\ processed_count' = 0
    /\ documents' = << >>
    /\ fetch_calls' = << >>
    /\ record_errors' = {}
    /\ UNCHANGED << dry_run, source_names, source_idx, to_save, saved_count,
                    total_documents >>
    /\ UNCHANGED << fvars, rvars, pvars, svars >>

\* documents = await spider.crawl(max_pages); no since_date: none is
\* filtered out; saved_count = 0.
CrawlDone ==
    /\ hpc = "crawl"
    /\ cpc = "returned"
    /\ hpc' = "save"
    /\ cpc' = "idle"
    /\ to_save' = documents
    /\ saved_count' = 0
    /\ UNCHANGED << config, arg_max_pages, max_pages, queue, cur,
                    visited_urls, processed_count, documents, fetch_calls,
                    record_errors >>
    /\ UNCHANGED << dry_run, source_names, source_idx, total_documents >>
    /\ UNCHANGED << fvars, rvars, pvars, svars >>

\* for doc in documents: response = await fetcher.fetch(doc.source_url)
SaveFetch ==
    /\ hpc = "save"
    /\ to_save # << >>
    /\ hpc' = "save_fetch"
    /\ FetchEnter(Head(to_save).source_url, DefaultMaxRetries)
    /\ UNCHANGED << dry_run, source_names, source_idx, to_save, saved_count,
                    total_documents >>
    /\ UNCHANGED << rvars, cvars, pvars, svars >>

\* if response and response['content']
HasContent(res) == res # NoneObj /\ ~IsEmpty(res.content)

\* The rest of the save loop's pass.  fetch is not inside a try block: what
\* it raises leaves _harvest_async, and so does what save_document raises.
SaveTake ==
    /\ hpc = "save_fetch"
    /\ fpc \in {"returned", "raised"}
    /\ fpc' = "idle"
    /\ furl' = NoUrl
    /\ attempt' = 0
    /\ headers' = NoHeaders
    /\ result' = NoneObj
    /\ gets' = 0
    /\ sleeps' = << >>
    /\ outcome' = NoOutcome
    /\ IF fpc = "raised"
       THEN /\ hpc' = "raised"
            /\ UNCHANGED << svars, to_save, saved_count, total_documents >>
       ELSE IF ~HasContent(result)
       THEN /\ hpc' = "save"
            /\ to_save' = Tail(to_save)
            /\ UNCHANGED << svars, saved_count, total_documents >>
       ELSE /\ \E fail \in DiskFailures, torn \in BOOLEAN :
                 /\ torn => fail = "write"
                 /\ save_document(Head(to_save), result.content, dry_run,
                                  fail, torn)
            /\ UNCHANGED spc
            /\ IF save_call'.ret = "raised"
               THEN /\ hpc' = "raised"
                    /\ UNCHANGED << to_save, saved_count, total_documents >>
               ELSE /\ hpc' = "save"
                    /\ to_save' = Tail(to_save)
                    /\ saved_count' = IF save_call'.ret = "True"
                                      THEN saved_count + 1 ELSE saved_count
                    /\ total_documents' = IF save_call'.ret = "True"
                                          THEN total_documents + 1
                                          ELSE total_documents
    /\ UNCHANGED << cache, now, fmax, last_sent >>
    /\ UNCHANGED << dry_run, source_names, source_idx >>
    /\ UNCHANGED << rvars, cvars, pvars >>

\* Going on to the next source with documents of this one still to save:
SourceDoneOverlapping ==
    /\ hpc = "save"
    /\ hpc' = "source"
    /\ source_idx' = source_idx + 1
    /\ UNCHANGED << dry_run, source_names, to_save, saved_count,
                    total_documents >>
    /\ UNCHANGED << fvars, rvars, cvars, pvars, svars >>

\* source_stats[config.name] = saved_count; the next source.
SourceDone ==
    /\ hpc = "save"
    /\ to_save = << >>
    /\ hpc' = "source"
    /\ source_idx' = source_idx + 1
    /\ UNCHANGED << dry_run, source_names, to_save, saved_count,
                    total_documents >>
    /\ UNCHANGED << fvars, rvars, cvars, pvars, svars >>

\* "Harvest complete!" and the statistics; _harvest_async returns.
HarvestDone ==
    /\ hpc = "source"
    /\ source_idx > Len(source_names)
    /\ hpc' = "done"
    /\ UNCHANGED << dry_run, source_names, source_idx, to_save, saved_count,
                    total_documents >>
    /\ UNCHANGED << fvars, rvars, cvars, pvars, svars >>

\* main has validated its options and calls _harvest_async.
InitHarvest ==
    /\ hpc = "start"
    /\ dry_run \in BOOLEAN
    /\ source_names \in SourceNameLists
    /\ source_idx = 0
    /\ to_save = << >>
    /\ saved_count = 0
    /\ total_documents = 0

\* ------------------------------------------------- fetch called directly
FetchCall ==
    /\ fpc = "idle"
    /\ \E u \in FetchURLs, n \in 1..MaxRetries : FetchEnter(u, n)

\* The caller takes the result or the exception.
FetchDone ==
    /\ fpc \in {"returned", "raised"}
    /\ fpc' = "idle"
    /\ furl' = NoUrl
    /\ attempt' = 0
    /\ headers' = NoHeaders
    /\ result' = NoneObj
    /\ gets' = 0
    /\ sleeps' = << >>
    /\ outcome' = NoOutcome
    /\ UNCHANGED << cache, now, fmax, last_sent >>


InitFetch ==
    /\ cache = {}
    /\ now = 0
    /\ fpc = "idle"
    /\ furl = NoUrl
    /\ fmax = DefaultMaxRetries
    /\ attempt = 0
    /\ headers = NoHeaders
    /\ result = NoneObj
    /\ gets = 0
    /\ sleeps = << >>
    /\ outcome = NoOutcome
    /\ last_sent = [u \in AllURLs |-> NoneObj]

Init ==
    /\ InitFetch /\ InitRobots /\ InitCrawl /\ InitAgent
    /\ InitPatterns /\ InitStorage /\ InitNoHarvest

\* The components called directly: no crawl is running.
InitDirect ==
    /\ Init
    /\ config = SourceConfig(<< IndexHtml >>, << >>, << >>, 0, MaxPages)
    /\ arg_max_pages = NoneInt

NextFetch ==
    \/ FetchCall /\ UNCHANGED << rvars, cvars, xvars >>
    \/ ClientGetResponse(FetchResponses) /\ UNCHANGED << rvars, cvars, xvars >>
    \/ ClientGetRaises /\ UNCHANGED << rvars, cvars, xvars >>
    \/ BackoffSleep /\ UNCHANGED << rvars, cvars, xvars >>
    \/ FetchDone /\ UNCHANGED << rvars, cvars, xvars >>

SpecFetch == InitDirect /\ [][NextFetch]_vars

NextRobots == IsAllowedCall /\ UNCHANGED << fvars, cvars, xvars >>

SpecRobots == InitDirect /\ [][NextRobots]_vars

\* One crawl: the spider's steps, and fetch's own steps while it is awaited.
Next ==
    \/ CrawlStart /\ UNCHANGED << fvars, rvars, xvars >>
    \/ Dequeue /\ UNCHANGED xvars
    \/ ClientGetResponse(CrawlResponses(furl)) /\ UNCHANGED << rvars, cvars, xvars >>
    \/ ClientGetRaises /\ UNCHANGED << rvars, cvars, xvars >>
    \/ BackoffSleep /\ UNCHANGED << rvars, cvars, xvars >>
    \/ HandleFetched /\ UNCHANGED xvars
    \/ CrawlReturn /\ UNCHANGED << fvars, rvars, xvars >>

Spec == Init /\ [][Next]_vars

\* The crawl under a running event loop: the coroutine is resumed whenever
\* it can go on (its own steps and the end of asyncio.sleep), and every
\* request the client has sent is answered or fails.
Fairness ==
    /\ WF_vars(CrawlStart /\ UNCHANGED << fvars, rvars, xvars >>)
    /\ WF_vars(Dequeue /\ UNCHANGED xvars)
    /\ WF_vars(HandleFetched /\ UNCHANGED xvars)
    /\ WF_vars(CrawlReturn /\ UNCHANGED << fvars, rvars, xvars >>)
    /\ WF_vars(BackoffSleep /\ UNCHANGED << rvars, cvars, xvars >>)
    /\ WF_vars((ClientGetResponse(CrawlResponses(furl)) \/ ClientGetRaises)
               /\ UNCHANGED << rvars, cvars, xvars >>)

\* One crawl from the index page of a source without patterns, to every
\* depth, with the source's page budget or a budget of one.
InitLive ==
    /\ InitFetch /\ InitRobots /\ InitAgent
    /\ InitPatterns /\ InitStorage /\ InitNoHarvest
    /\ config \in { c \in Configs : /\ c.start_urls = << IndexHtml >>
                                    /\ c.allow_patterns = << >> }
    /\ arg_max_pages \in {NoneInt, 1}
    /\ cpc = "start"
    /\ max_pages = 0
    /\ queue = << >>
    /\ cur = NoEntry
    /\ visited_urls = {}
    /\ processed_count = 0
    /\ documents = << >>
    /\ fetch_calls = << >>
    /\ record_errors = {}

SpecLive == InitLive /\ [][Next]_vars /\ Fairness

\* One crawl by a spider whose fetcher was constructed with any user agent.
InitConfigured ==
    /\ InitFetch /\ InitRobots /\ InitCrawl /\ InitAnyAgent
    /\ InitPatterns /\ InitStorage /\ InitNoHarvest

SpecAgents == InitConfigured /\ [][Next]_vars

\* One crawl of a source whose seed page has anchors with fragments.
InitFragments ==
    /\ InitFetch /\ InitRobots /\ InitAgent
    /\ InitPatterns /\ InitStorage /\ InitNoHarvest
    /\ config = SourceConfig(<< AnchorsHtml >>, << >>, << >>, 1, MaxPages)
    /\ arg_max_pages \in {NoneInt, 1}
    /\ cpc = "start"
    /\ max_pages = 0
    /\ queue = << >>
    /\ cur = NoEntry
    /\ visited_urls = {}
    /\ processed_count = 0
    /\ documents = << >>
    /\ fetch_calls = << >>
    /\ record_errors = {}

SpecFragments == InitFragments /\ [][Next]_vars

\* One crawl of a built-in source, or of the site whose seed passes.
InitBuiltin ==
    /\ InitFetch /\ InitRobots /\ InitAgent
    /\ InitPatterns /\ InitStorage /\ InitNoHarvest
    /\ config \in { BuiltinSources[n] : n \in DOMAIN BuiltinSources }
                   \cup { HarvestSources.site }
    /\ arg_max_pages \in {NoneInt, MaxPages}
    /\ cpc = "start"
    /\ max_pages = 0
    /\ queue = << >>
    /\ cur = NoEntry
    /\ visited_urls = {}
    /\ processed_count = 0
    /\ documents = << >>
    /\ fetch_calls = << >>
    /\ record_errors = {}

SpecBuiltin == InitBuiltin /\ [][Next]_vars

\* No spider is running.
InitNoCrawl ==
    /\ arg_max_pages = NoneInt
    /\ cpc = "idle"
    /\ max_pages = 0
    /\ queue = << >>
    /\ cur = NoEntry
    /\ visited_urls = {}
    /\ processed_count = 0
    /\ documents = << >>
    /\ fetch_calls = << >>
    /\ record_errors = {}

\* A SourceConfig with any allow list and any deny list.
InitPatternConfigs ==
    /\ InitFetch /\ InitRobots /\ InitNoCrawl /\ InitAgent
    /\ InitPatterns /\ InitStorage /\ InitNoHarvest
    /\ config \in { SourceConfig(<< IndexHtml >>, allow, deny, 0, MaxPages) :
                       allow \in PatternSeqs, deny \in PatternSeqs }

NextPatterns ==
    ShouldProcessCall /\ UNCHANGED << fvars, rvars, cvars, svars, hvars >>

SpecPatterns == InitPatternConfigs /\ [][NextPatterns]_vars

\* generate_document_id called at any moments of a process's life.
NextIds ==
    \/ GenerateDocumentIdCall /\ UNCHANGED << fvars, rvars, cvars, svars, hvars >>
    \/ ClockTick /\ UNCHANGED << rvars, cvars, xvars >>

SpecIds == InitDirect /\ [][NextIds]_vars

NextFiletypes ==
    UrlFiletypeCall /\ UNCHANGED << fvars, rvars, cvars, svars, hvars >>

SpecFiletypes == InitDirect /\ [][NextFiletypes]_vars

NextDates ==
    ParseDateStringCall /\ UNCHANGED << fvars, rvars, cvars, svars, hvars >>

SpecDates == InitDirect /\ [][NextDates]_vars

\* A DocumentStorage on an output location that is new or was used before.
InitOutput ==
    /\ InitFetch /\ InitRobots /\ InitNoCrawl /\ InitAgent
    /\ InitPatterns /\ InitNoHarvest
    /\ InitStorage \/ InitStorageUsed
    /\ config = HarvestSources.site

NextStorage ==
    \/ StorageInitCall /\ UNCHANGED << fvars, rvars, cvars, pvars, hvars >>
    \/ SaveDocumentCall /\ UNCHANGED << fvars, rvars, cvars, pvars, hvars >>

SpecStorage == InitOutput /\ [][NextStorage]_vars

\* One harvest: main calls _harvest_async on a new output location, with an
\* empty cache.db.
InitMain ==
    /\ InitFetch /\ InitRobots /\ InitNoCrawl /\ InitAgent
    /\ InitPatterns /\ InitStorage /\ InitHarvest
    /\ config = HarvestSources[source_names[1]]

NextHarvest ==
    \/ HarvestStart
    \/ SourceStart
    \/ hpc = "crawl" /\ CrawlStart /\ UNCHANGED << fvars, rvars, xvars >>
    \/ hpc = "crawl" /\ Dequeue /\ UNCHANGED xvars
    \/ ClientGetResponse(CrawlResponses(furl)) /\ UNCHANGED << rvars, cvars, xvars >>
    \/ ClientGetRaises /\ UNCHANGED << rvars, cvars, xvars >>
    \/ BackoffSleep /\ UNCHANGED << rvars, cvars, xvars >>
    \/ hpc = "crawl" /\ HandleFetched /\ UNCHANGED xvars
    \/ hpc = "crawl" /\ CrawlReturn /\ UNCHANGED << fvars, rvars, xvars >>
    \/ CrawlDone
    \/ SaveFetch
    \/ SaveTake
    \/ SourceDone
    \/ HarvestDone

SpecHarvest == InitMain /\ [][NextHarvest]_vars

\* The task running crawl is cancelled (asyncio.run on a user interrupt,
\* Task.cancel) while it awaits inside fetch, at client.get or at
\* asyncio.sleep: asyncio.CancelledError, a BaseException, is thrown in at
\* the await; neither fetch's `except Exception` nor crawl's catches it, so
\* it leaves fetch and crawl, whose local documents list goes with the frame.
Cancel ==
    /\ cpc = "fetching"
    /\ fpc \in {"get", "sleep"}
    /\ fpc' = "raised"
    /\ result' = [kind |-> "exception", exc |-> "CancelledError"]
    /\ cpc' = "raised"
    /\ UNCHANGED << cache, now, furl, fmax, attempt, headers, gets, sleeps,
                    outcome, last_sent >>
    /\ UNCHANGED << config, arg_max_pages, max_pages, queue, cur,
                    visited_urls, processed_count, documents, fetch_calls,
                    record_errors >>
    /\ UNCHANGED << rvars, xvars >>

\* One crawl that may be cancelled from outside.
NextCancel ==
    \/ CrawlStart /\ UNCHANGED << fvars, rvars, xvars >>
    \/ Dequeue /\ UNCHANGED xvars
    \/ /\ cpc = "fetching"
       /\ ClientGetResponse(CrawlResponses(furl))
       /\ UNCHANGED << rvars, cvars, xvars >>
    \/ cpc = "fetching" /\ ClientGetRaises /\ UNCHANGED << rvars, cvars, xvars >>
    \/ cpc = "fetching" /\ BackoffSleep /\ UNCHANGED << rvars, cvars, xvars >>
    \/ HandleFetched /\ UNCHANGED xvars
    \/ CrawlReturn /\ UNCHANGED << fvars, rvars, xvars >>
    \/ Cancel

SpecCancel == Init /\ [][NextCancel]_vars

\* ================================================================ claims
\* ---------------------------------------------------------------- fetcher
\* The delays 2^0, 2^1, ..., 2^(k-1).
Backoffs(k) == [i \in 1..k |-> Pow2(i - 1)]

\* The latest attempt ended in a permanent failure: a 4xx other than 429,
\* or the URL being malformed.
PermanentFailure ==
    \/ outcome.kind = "response" /\ outcome.status \in (400..499) \ {429}
    \/ outcome.kind = "exception" /\ outcome.exc = "UnsupportedProtocol"

\* C4: a retryable status (429, 500, 502, 503, 504) answered while attempts
\* remain is not returned to the caller: the attempt is slept on (2^attempt
\* seconds) and repeated, so that 503, 503, 200 makes three GETs with sleeps
\* 1 and 2 and returns the 200.
C4_RetryableStatusRetried ==
    (/\ fpc = "returned"
     /\ outcome.kind = "response"
     /\ outcome.status \in RetryableStatuses)
        => ~MayRetry(attempt, fmax)

\* C5: while every attempt of fetch(url, n) raises a network exception,
\* fetch never makes more than n attempts, has slept 2^0..2^(k-1) after k
\* failed attempts that were not the last, and ends by raising after exactly
\* n attempts and n-1 sleeps; it never returns None.
C5_ExhaustedRetriesRaise ==
    /\ gets <= fmax
    /\ fpc = "get" => gets = attempt /\ sleeps = Backoffs(attempt)
    /\ fpc = "sleep" => gets = attempt + 1 /\ gets < fmax
                          /\ sleeps = Backoffs(attempt)
    /\ fpc = "raised" =>
          /\ gets = fmax
          /\ sleeps = Backoffs(fmax - 1)
          /\ result = [kind |-> "exception", exc |-> outcome.exc]
    /\ fpc = "returned" => result # NoneObj /\ outcome.kind = "response"

\* C5 witness: a default call (three attempts) on a well-formed URL ended
\* by raising the network exception after sleeping 1 and 2 seconds.
C5_Witness ==
    /\ fpc = "raised"
    /\ fmax = DefaultMaxRetries
    /\ gets = 3
    /\ sleeps = << 1, 2 >>
    /\ result = [kind |-> "exception", exc |-> "ConnectError"]

\* C6: an attempt that ends in a permanent failure (a 4xx other than 429, a
\* malformed URL) ends the fetch call: it is the only attempt, nothing is
\* slept and nothing retried.
C6_PermanentFailureNotRetried ==
    PermanentFailure =>
        /\ fpc \in {"returned", "raised", "idle"}
        /\ outcome.kind = "exception" => gets = 1 /\ sleeps = << >>

\* C7: a 304 answer to a request that carried the stored ETag returns
\* cached = TRUE and no content and leaves every cache row as it was; no
\* other step of fetch than a non-304 answer changes the cache.
C7_NotModifiedLeavesCache ==
    [][ /\ (/\ fpc = "get"
            /\ gets' = gets + 1
            /\ outcome'.kind = "response"
            /\ outcome'.status = 304
            /\ headers.if_none_match # None)
           => /\ fpc' = "returned"
              /\ result'.cached = TRUE
              /\ result'.content = NoneObj
              /\ cache' = cache
        /\ cache' # cache
           => /\ gets' = gets + 1
              /\ outcome'.kind = "response"
              /\ outcome'.status # 304 ]_vars

\* C7 witness: a 304 was returned for a URL whose stored row has an ETag
\* that the request carried.
C7_Witness ==
    /\ fpc = "returned"
    /\ result # NoneObj
    /\ result.kind = "dict"
    /\ result.cached
    /\ headers.if_none_match = "e1"
    /\ get_cache_entry(cache, furl) # NoneObj
    /\ get_cache_entry(cache, furl).etag = "e1"

\* The rows of the cache table for url.
RowsOf(url) == {r \in cache : r.url = url}

\* C8: the cache holds at most one row per URL, none for a URL that never
\* got a non-304 answer, and otherwise the row carries the ETag,
\* Last-Modified and status of the latest non-304 answer; a non-304 answer
\* is returned with cached = FALSE and its own status.
C8_CacheHoldsLatestResponse ==
    /\ \A u \in DOMAIN last_sent :
        /\ Cardinality(RowsOf(u)) <= 1
        /\ last_sent[u] = NoneObj => RowsOf(u) = {}
        /\ last_sent[u] # NoneObj =>
              \E r \in RowsOf(u) :
                  /\ r.etag = last_sent[u].etag
                  /\ r.last_modified = last_sent[u].last_modified
                  /\ r.status = last_sent[u].status
    /\ \A r \in cache : r.url \in DOMAIN last_sent
    /\ (fpc = "returned" /\ outcome.kind = "response" /\ outcome.status # 304)
          => /\ result.cached = FALSE
             /\ result.status_code = outcome.status
             /\ result.status_code = get_cache_entry(cache, furl).status

\* C8 witness: a URL answered twice with different non-304 responses, the
\* second a 503 without validators, holds the single row of the second.
C8_Witness ==
    /\ fpc = "returned"
    /\ outcome = [kind |-> "response", status |-> 503]
    /\ \E r \in cache :
          /\ r.url = furl
          /\ r.status = 503
          /\ r.etag = None
          /\ r.stored_at > 0
    /\ \E r \in cache : r.url # furl

\* ------------------------------------------------------------- robots.txt
\* C9: is_allowed is fail-open: if the robots.txt of a URL's origin could
\* not be fetched or parsed (network error, HTTP error status, undecodable
\* body), the call that tried and every later call for that origin return
\* True.
C9_RobotsFailOpen ==
    (/\ robots_call.url # NoUrl
     /\ robots_log[Origin(robots_call.url)].outcome
            \in {"URLError", "HTTPError", "UnicodeDecodeError"})
        => robots_call.ret = TRUE

\* C10: the robots.txt of an origin is downloaded at most once, whether or
\* not the download succeeded; a call for an origin already in the cache
\* downloads nothing and answers from the cached parser.
C10_RobotsReadOnce ==
    /\ [](\A o \in DOMAIN robots_log :
            /\ robots_log[o].reads <= 1
            /\ robots_log[o].reads = 1 <=> robots_cache[o] # NoneObj)
    /\ [][ \A o \in DOMAIN robots_log :
              robots_log[o].reads = 1
                 => /\ robots_log'[o] = robots_log[o]
                    /\ robots_cache'[o] = robots_cache[o] ]_vars

\* C10 witness: a second call for an origin whose only download failed was
\* answered without a download.
C10_Witness ==
    /\ robots_call.url # NoUrl
    /\ ~robots_call.read
    /\ robots_log[Origin(robots_call.url)].reads = 1
    /\ robots_log[Origin(robots_call.url)].outcome = "URLError"

\* ------------------------------------------------------------ the frontier
\* C1: within one crawl no URL is fetched twice: the URLs of the
\* fetcher.fetch calls made by crawl are pairwise different, each was marked
\* visited before its fetch, and nothing else is marked visited.
C1_NoUrlFetchedTwice ==
    /\ \A i, j \in 1..Len(fetch_calls) :
          i # j => fetch_calls[i].url # fetch_calls[j].url
    /\ visited_urls = { fetch_calls[i].url : i \in 1..Len(fetch_calls) }
    /\ cpc = "fetching" => furl = cur.url /\ cur.url \in visited_urls

\* C1 witness: the crawl of a source that lists a seed twice has drained its
\* queue, so the second copy was dequeued after the first was fetched.
C1_Witness ==
    /\ cpc = "returned"
    /\ queue = << >>
    /\ config.start_urls = << IndexHtml, LogoPng, IndexHtml >>
    /\ \E i \in 1..Len(fetch_calls) : fetch_calls[i].url = IndexHtml
    /\ \E i \in 1..Len(fetch_calls) : fetch_calls[i].url = LogoPng

\* C2: every fetch crawl makes is for an entry of depth <= config.max_depth;
\* seeds are fetched at depth 0 and nothing is fetched at a negative depth.
C2_FetchWithinMaxDepth ==
    /\ \A i \in 1..Len(fetch_calls) :
          /\ fetch_calls[i].depth >= 0
          /\ fetch_calls[i].depth <= config.max_depth
    /\ cpc = "fetching" => cur.depth <= config.max_depth

\* C2 witness: a page was fetched and the queue holds a link of it that is
\* deeper than max_depth.
C2_Witness ==
    /\ Len(fetch_calls) >= 1
    /\ \E i \in 1..Len(queue) : queue[i].depth > config.max_depth

\* A step of crawl that pops the head of the queue.
Dequeues == cpc = "loop" /\ queue # << >> /\ queue' = Tail(queue)

\* C11: crawl fetches a URL only after is_allowed and should_process_url
\* both approved it at its dequeue; an entry either of them denies is skipped
\* with the visited set, the fetch calls, the counter and the record list
\* unchanged.
C11_FetchOnlyIfApproved ==
    /\ [](\A i \in 1..Len(fetch_calls) :
            /\ should_process_url(config, fetch_calls[i].url)
            /\ robots_cache[Origin(fetch_calls[i].url)] # NoneObj
            /\ can_fetch(robots_cache[Origin(fetch_calls[i].url)],
                         fetch_calls[i].url))
    /\ [][ Dequeues =>
            LET e == Head(queue)
                asked == ~SkipEntry(visited_urls, config, e.url, e.depth)
                robots_ok == can_fetch(robots_cache'[Origin(e.url)], e.url)
            IN
            /\ (asked /\ (~robots_ok \/ ~should_process_url(config, e.url)))
                  => /\ visited_urls' = visited_urls
                     /\ fetch_calls' = fetch_calls
                     /\ processed_count' = processed_count
                     /\ documents' = documents
                     /\ fpc' = "idle"
                     /\ cpc' = "loop"
            /\ fetch_calls' # fetch_calls
                  => /\ asked
                     /\ robots_call'.url = e.url
                     /\ robots_call'.ret
                     /\ robots_ok
                     /\ should_process_url(config, e.url) ]_vars

\* C11 witness: robots.txt allowed the image seed, the allow patterns did
\* not, and the crawl went on to the next seed with the image unvisited.
C11_Witness ==
    /\ cpc = "loop"
    /\ robots_call.url = LogoPng
    /\ robots_call.ret
    /\ ~should_process_url(config, LogoPng)
    /\ LogoPng \notin visited_urls
    /\ IndexHtml \in visited_urls
    /\ Len(queue) = 1

\* A step of crawl that takes what fetch returned or raised.
TakesFetched == cpc = "fetching" /\ cpc' # "fetching"

\* The fetch crawl awaits failed: it raised after its retries, returned a
\* status other than 200 (a 304 comes back as 200 without content), or
\* returned no content.
FetchFailed ==
    \/ fpc = "raised"
    \/ result = NoneObj
    \/ result.status_code # 200
    \/ result.content = NoneObj
    \/ result.content.data = ""

\* C12: a fetch that raised after its retries, returned a status other than
\* 200/304 or returned empty content makes crawl give up that entry only:
\* its URL stays visited, no record is made for it, nothing is queued for
\* it (so it is never fetched again) and the loop goes on.
C12_FailedFetchAbandonsEntry ==
    /\ [](\A r \in cache :
            r.status # 200 =>
              /\ r.url \in visited_urls
              /\ \A i \in 1..Len(documents) :
                    documents[i].source_url # r.url
              /\ Cardinality({ i \in 1..Len(fetch_calls) :
                                 fetch_calls[i].url = r.url }) = 1)
    /\ [][ (TakesFetched /\ FetchFailed) =>
              /\ cur.url \in visited_urls'
              /\ visited_urls' = visited_urls
              /\ documents' = documents
              /\ processed_count' = processed_count
              /\ queue' = queue
              /\ fetch_calls' = fetch_calls
              /\ cpc' = "loop" ]_vars

\* C12 witness: the first fetch of the crawl was answered 503, and the crawl
\* has gone on to fetch another URL.
C12_Witness ==
    /\ Len(fetch_calls) >= 2
    /\ \E r \in cache : r.url = fetch_calls[1].url /\ r.status = 503
    /\ fetch_calls[1].url \in visited_urls
    /\ documents = << >>

\* The depths of the entries of a sequence never go down.
DepthsAscend(entries) ==
    \A i, j \in 1..Len(entries) :
        i < j => entries[i].depth <= entries[j].depth

\* C15: the queue is strictly first-in first-out, hence breadth-first:
\* entries leave at the head and enter at the tail, the depths along the
\* queue and along the fetches never go down, and whatever is still queued
\* is at least as deep as everything fetched so far.
C15_BreadthFirstOrder ==
    /\ [](/\ DepthsAscend(queue)
           /\ DepthsAscend(fetch_calls)
           /\ \A i \in 1..Len(fetch_calls), j \in 1..Len(queue) :
                 fetch_calls[i].depth <= queue[j].depth)
    /\ [][ /\ queue' # queue =>
                \/ cpc = "start"
                \/ queue # << >> /\ queue' = Tail(queue)
                \/ /\ Len(queue') > Len(queue)
                   /\ SubSeq(queue', 1, Len(queue)) = queue
           /\ fetch_calls' # fetch_calls =>
                /\ queue # << >>
                /\ queue' = Tail(queue)
                /\ fetch_calls' = Append(fetch_calls, Head(queue)) ]_vars

\* C15 witness: a source with several seeds had two of them fetched at
\* depth 0 and then a link of the first at depth 1.
C15_Witness ==
    /\ Len(fetch_calls) >= 3
    /\ fetch_calls[1].depth = 0
    /\ fetch_calls[2].depth = 0
    /\ fetch_calls[3].depth = 1

\* C16: an HTML page is never made a record, whatever filetypes the source
\* has ('html' is in the default set): no record of crawl has file_type
\* 'html' or the URL of a page, and the step that takes a fetched page only
\* queues its links.
C16_PagesAreNotDocuments ==
    /\ [](\A i \in 1..Len(documents) :
            /\ documents[i].file_type # "html"
            /\ url_filetype(documents[i].source_url) # "html")
    /\ [][ (TakesFetched /\ url_filetype(cur.url) = "html") =>
              /\ documents' = documents
              /\ processed_count' = processed_count
              /\ \/ queue' = queue
                 \/ /\ ~FetchFailed
                    /\ Len(queue') > Len(queue)
                    /\ SubSeq(queue', 1, Len(queue)) = queue
                    /\ \A i \in Len(queue) + 1..Len(queue') :
                          /\ queue'[i].depth = cur.depth + 1
                          /\ \E j \in 1..Len(result.content.hrefs) :
                                queue'[i].url =
                                    urljoin(cur.url, result.content.hrefs[j])
          ]_vars

\* C16 witness: a source with 'html' among its filetypes had its seed page
\* fetched with content, and the crawl returned a record of a file the page
\* links to.
C16_Witness ==
    /\ cpc = "returned"
    /\ "html" \in config.filetypes
    /\ \E r \in cache : r.url = IndexHtml /\ r.status = 200
    /\ Len(documents) >= 1
    /\ documents[1].file_type = "pdf"

\* Some pattern of the list matches the URL.
SomeMatches(patterns, u) == \E i \in 1..Len(patterns) : u \in patterns[i]

\* C17: should_process_url(url) is true exactly when (the allow list is
\* empty or some allow pattern matches url) and no deny pattern matches url:
\* an empty allow list allows every URL, a deny match overrides an allow
\* match.
C17_ShouldProcessUrl ==
    sp_call.url # NoUrl =>
        LET u == sp_call.url
            allow == config.allow_patterns
            deny == config.deny_patterns
        IN
        /\ sp_call.ret <=> /\ allow = << >> \/ SomeMatches(allow, u)
                           /\ ~SomeMatches(deny, u)
        /\ (allow = << >> /\ deny = << >>) => sp_call.ret
        /\ SomeMatches(deny, u) => ~sp_call.ret

\* C17 witness: a URL that an allow pattern and a deny pattern both match
\* was refused.
C17_Witness ==
    /\ sp_call.url = DocPdf
    /\ SomeMatches(config.allow_patterns, DocPdf)
    /\ SomeMatches(config.deny_patterns, DocPdf)
    /\ ~sp_call.ret

\* ------------------------------------------------------------ the storage
\* The call made by this step was a save to disk that no disk failure hit.
SavedNow(c) ==
    /\ spc = "ready"
    /\ ~c.dry_run
    /\ c.fail = "none"

\* C18: saving the same record and content a second time (same storage
\* path, same byte length) does not write the file again but appends a
\* second catalog line: each of the two saves adds exactly one line, and no
\* save ever truncates or rewrites the catalog.
C18_SecondSaveAppendsOnly ==
    [][ LET c == save_call'
            path == generate_storage_path(c.record)
            line == CatalogLine(c.record, path)
        IN
        /\ Len(catalog') >= Len(catalog)
        /\ SubSeq(catalog', 1, Len(catalog)) = catalog
        /\ SavedNow(c) =>
              /\ c.ret = "True"
              /\ catalog' = Append(catalog, line)
              /\ fs_files'[path] # NoFile
              /\ ByteLen(fs_files'[path]) = ByteLen(c.content)
              /\ (fs_files[path] # NoFile
                    /\ ByteLen(fs_files[path]) = ByteLen(c.content))
                   => fs_files' = fs_files /\ ~c.wrote
        /\ (/\ SavedNow(c)
            /\ save_call.ret = "True" /\ ~save_call.dry_run
            /\ save_call.fail = "none"
            /\ save_call.record = c.record
            /\ save_call.content = c.content)
              => /\ fs_files' = fs_files
                 /\ ~c.wrote
                 /\ Len(catalog) >= 1
                 /\ catalog' = Append(catalog, catalog[Len(catalog)])
      ]_vars

\* C18 witness: the PDF was written by one save and left alone by the next
\* save of the same record and bytes; the catalog ends with its line twice.
C18_Witness ==
    /\ save_call.ret = "True"
    /\ ~save_call.dry_run
    /\ ~save_call.wrote
    /\ save_call.fail = "none"
    /\ save_call.record = DocumentRecord(DocPdf, "pdf", "doc")
    /\ save_call.content = Body("%%", << >>)
    /\ fs_files[<< "pdf", "doc" >>] = Body("%%", << >>)
    /\ Len(catalog) >= 2
    /\ catalog[Len(catalog)] = catalog[Len(catalog) - 1]
    /\ catalog[Len(catalog)].record = save_call.record

\* ------------------------------------------------------------ the harvest
\* C13: once startup has passed (the components are constructed), no fetch,
\* robots, parse or storage failure ends the harvest: _harvest_async never
\* ends by raising, in the crawl phase or in the save phase of any source.
C13_HarvestNeverAborts ==
    spc = "ready" => hpc # "raised"

\* C14: a crawl cancelled while a fetch is in flight lets that fetch and
\* its entry's step finish and then returns the records it has: the fetch
\* in flight is never cut short by the cancellation, and crawl never ends
\* by raising instead of returning.
C14_CancelledCrawlReturns ==
    /\ ~(fpc = "raised" /\ result.exc = "CancelledError")
    /\ cpc # "raised"

\* C19: a dry-run harvest changes nothing on disk: no document file is
\* written, no catalog line appended and no output directory created.
C19_DryRunWritesNothing ==
    dry_run =>
        /\ \A path \in StoragePaths : fs_files[path] = NoFile
        /\ catalog = << >>
        /\ fs_dirs = {}

\* C20: a disk failure while a document is saved (making its directory,
\* writing its file, appending its catalog line) never leaves
\* save_document as an exception: the call returns, and the save loop goes
\* on to the documents that remain.
C20_DiskFailureStaysInSave ==
    /\ save_call.ret # "raised"
    /\ (hpc = "raised" /\ spc = "ready" /\ save_call.fail # "none")
          => to_save = << >>

FiletypeOfExtension(ext) ==
    IF ext \in {"pdf", "PDF"} THEN "pdf"
    ELSE IF ext = "csv" THEN "csv"
    ELSE IF ext = "xlsx" THEN "xlsx"
    ELSE IF ext = "xls" THEN "xls"
    ELSE IF ext \in {"html", "htm"} THEN "html"
    ELSE None

\* C22: url_filetype gives the file type of the extension the URL's path
\* ends with (.pdf pdf, .csv csv, .xlsx xlsx, .xls xls, .html and .htm
\* html) and None for every other URL, whatever the query string and the
\* fragment are.
C22_FiletypeByPathSuffix ==
    ft_call.url # NoUrl =>
        ft_call.ret = FiletypeOfExtension(ft_call.url.ext)

\* A page without extension whose fragment ends in .csv and whose query
\* ends in .pdf has no file type.
C22_Witness ==
    /\ ft_call.url.ext = ""
    /\ ft_call.url.query = "f=a.pdf"
    /\ ft_call.url.fragment = "x.csv"
    /\ ft_call.ret = None

\* C23: parse_date_string on MM-sep-YYYY with a month in 1..12 returns the
\* first day of that month of that year.
C23_MonthYearGivesFirstOfMonth ==
    \A str \in MYStrings :
        date_call.date_str = str =>
            date_call.ret = date(str[3].v, str[1].v, 1)

\* C24: parse_date_string on a bare year of four digits returns January 1 of
\* the year when it lies in [1900, 2030] and None when it lies outside.
C24_BareYearInRangeOnly ==
    \A str \in YearStrings :
        date_call.date_str = str =>
            date_call.ret = IF 1900 <= str[1].v /\ str[1].v <= 2030
                            THEN date(str[1].v, 1, 1)
                            ELSE NoneObj

\* C25: while crawl's fetch of a URL sends its request, the user agent the
\* robots check of that URL was evaluated for is the one in the request's
\* User-Agent header, whatever agent the fetcher was constructed with.
C25_RobotsAgentIsFetchAgent ==
    (cpc = "fetching" /\ fpc = "get") =>
        /\ robots_call.url = furl
        /\ robots_call.user_agent = headers.user_agent

\* C26 as stated: every entry in the queue has a depth of at most
\* config.max_depth and a URL that is not in visited_urls.
C26_QueueEntriesValid ==
    \A i \in 1..Len(queue) :
        /\ queue[i].depth <= config.max_depth
        /\ queue[i].url \notin visited_urls

\* C26, amended: the queue is filtered when an entry is taken, not when it
\* is put. Every entry in the queue has a depth of at most
\* config.max_depth + 1; an entry a page adds was unvisited when it was
\* added and is one level below the page; and taking an entry that is deeper
\* than config.max_depth or whose URL has been visited since changes nothing
\* but the queue.
C26_EntriesFilteredWhenTaken ==
    [][ /\ \A i \in 1..Len(queue') :
              queue'[i].depth <= config.max_depth + 1
        /\ (cpc = "fetching" /\ Len(queue') > Len(queue)) =>
              \A i \in (Len(queue) + 1)..Len(queue') :
                  /\ queue'[i].url \notin visited_urls
                  /\ queue'[i].depth = cur.depth + 1
        /\ (cpc = "loop" /\ queue # << >> /\ queue' = Tail(queue)
              /\ (\/ Head(queue).depth > config.max_depth
                  \/ Head(queue).url \in visited_urls)) =>
              /\ UNCHANGED << visited_urls, fetch_calls, documents,
                              processed_count, fvars, rvars >>
              /\ cpc' = "loop" ]_vars

\* The queue holds an entry below max_depth and an entry whose URL has been
\* visited.
C26_Witness ==
    /\ \E i \in 1..Len(queue) : queue[i].depth = config.max_depth + 1
    /\ \E j \in 1..Len(queue) : queue[j].url \in visited_urls

\* C27: every URL in visited_urls is its own normalize_url image (it has no
\* fragment), and no two fetch calls of the crawl are for URLs that differ
\* only in their fragment.
C27_VisitedAreNormalized ==
    /\ \A u \in visited_urls : u = normalize_url(u)
    /\ \A i \in 1..Len(fetch_calls), j \in 1..Len(fetch_calls) :
          normalize_url(fetch_calls[i].url) = normalize_url(fetch_calls[j].url)
              => i = j

\* C28: crawl returns only from the loop's test, when the queue is empty or
\* processed_count has reached the page budget (the local max_pages, which
\* is never below the budget the caller gave); what it returns is the
\* documents list as it stands, and the list only ever grows at its end, by
\* the record of the entry at hand.
C28_ReturnsInTerminalState ==
    [][ /\ (cpc # "returned" /\ cpc' = "returned") =>
              /\ cpc = "loop"
              /\ \/ queue = << >>
                 \/ /\ processed_count >= max_pages
                    /\ processed_count >=
                          (IF arg_max_pages # NoneInt THEN arg_max_pages
                           ELSE config.max_pages)
              /\ documents' = documents
        /\ (cpc \in {"loop", "fetching"} /\ documents' # documents) =>
              /\ Len(documents') = Len(documents) + 1
              /\ SubSeq(documents', 1, Len(documents)) = documents
              /\ documents'[Len(documents')].source_url = cur.url ]_vars

\* crawl has returned its one record with the budget reached and entries
\* left in the queue.
C28_Witness ==
    /\ cpc = "returned"
    /\ queue # << >>
    /\ processed_count = max_pages
    /\ Len(documents) = 1

\* C29: in the save loop, whenever the fetch of a returned record's URL
\* comes back (whatever the server answered), the record is handed to
\* save_document together with the document's bytes.
C29_EveryRecordHandedToSave ==
    [][ (hpc = "save_fetch" /\ fpc = "returned" /\ hpc' # "save_fetch") =>
            /\ save_call'.record = Head(to_save)
            /\ save_call'.content = result.content
            /\ ~IsEmpty(save_call'.content) ]_vars

\* C30: a step in which the building of a record raised (the error is
\* printed for the entry's URL) appends no record, leaves processed_count
\* as it was and goes back to the loop's test; no record in documents is for
\* a URL whose building raised.
C30_RecordErrorIsSwallowed ==
    [][ /\ \A i \in 1..Len(documents') :
              /\ documents'[i] # NoneObj
              /\ documents'[i].source_url \notin record_errors'
        /\ record_errors' # record_errors =>
              /\ record_errors' = record_errors \cup {cur.url}
              /\ documents' = documents
              /\ processed_count' = processed_count
              /\ queue' = queue
              /\ cpc' = "loop" ]_vars

\* The building of one document's record raised, and the crawl went on to
\* return the record of a later document.
C30_Witness ==
    /\ cpc = "returned"
    /\ record_errors # {}
    /\ Len(documents) = 1
    /\ \E i \in 1..Len(fetch_calls), j \in 1..Len(fetch_calls) :
          /\ i < j
          /\ fetch_calls[i].url \in record_errors
          /\ fetch_calls[j].url = documents[1].source_url

\* C32: parse_date_string on DD-sep-MM-sep-YYYY with a valid day and month
\* returns date(YYYY, MM, DD).
C32_DayMonthYearParsed ==
    \A str \in DMYStrings :
        date_call.date_str = str =>
            date_call.ret = date(str[5].v, str[3].v, str[1].v)

\* C33: during a crawl of a new spider, processed_count is the number of
\* records in documents: pages, discarded entries and failed fetches do not
\* count.
C33_CounterIsRecordCount ==
    cpc \in {"start", "loop", "fetching", "returned"} =>
        processed_count = Len(documents)

\* A crawl that fetched a page and two more entries, one of which gave the
\* only record, has counted one.
C33_Witness ==
    /\ cpc = "returned"
    /\ Len(fetch_calls) = 3
    /\ url_filetype(fetch_calls[1].url) = "html"
    /\ Len(documents) = 1
    /\ processed_count = 1

\* C34: after a save_document call that was not a dry run and returned
\* True, the file at the record's storage path holds exactly the content
\* that was passed.
C34_SavedFileHoldsContent ==
    (save_call.ret = "True" /\ ~save_call.dry_run) =>
        fs_files[generate_storage_path(save_call.record)] = save_call.content

\* No seed of the source gets past the patterns: each is matched by no allow
\* pattern (of a list that is not empty) or by a deny pattern.
NoSeedPasses(cfg) ==
    \A i \in 1..Len(cfg.start_urls) :
        \/ /\ cfg.allow_patterns # << >>
           /\ ~SomeMatches(cfg.allow_patterns, cfg.start_urls[i])
        \/ SomeMatches(cfg.deny_patterns, cfg.start_urls[i])

\* C35: a crawl of a source none of whose seeds passes should_process_url
\* calls fetch for nothing and never has a record; and none of the seeds of
\* the five built-in sources passes its source's patterns.
C35_NoSeedPassesNoFetch ==
    /\ NoSeedPasses(config) =>
          /\ fetch_calls = << >>
          /\ fpc = "idle"
          /\ cache = {}
          /\ visited_urls = {}
          /\ documents = << >>
    /\ \A n \in DOMAIN BuiltinSources : NoSeedPasses(BuiltinSources[n])

\* The crawl of the sebi source has returned nothing, robots.txt having
\* allowed the last seed it asked about.
C35_Witness ==
    /\ config = BuiltinSources.sebi
    /\ cpc = "returned"
    /\ queue = << >>
    /\ robots_call.url = BuiltinSeeds.sebi[3]
    /\ robots_call.ret
    /\ fetch_calls = << >>
    /\ documents = << >>

\* A call of fetch has been entered and its caller has not taken the result.
FetchInFlight == fpc # "idle"

\* The coroutines suspended at `await fetcher.fetch(...)`: the crawl loop
\* and the save loop.
FetchAwaiters ==
    (IF cpc = "fetching" THEN {"crawl"} ELSE {})
    \cup (IF hpc = "save_fetch" THEN {"save"} ELSE {})

\* C31: the harvest is sequential.  A fetch in flight has exactly one
\* awaiter and nobody awaits without one; while it is in flight and not yet
\* returned, queue, visited set and counter stay as they are; and the crawl
\* of the next source starts only from between two sources, with the crawl
\* of the one before returned and taken, and nothing left to save.
C31_HarvestIsSequential ==
    [][ /\ Cardinality(FetchAwaiters') = (IF FetchInFlight' THEN 1 ELSE 0)
        /\ fpc \in {"get", "sleep"} =>
              /\ queue' = queue
              /\ visited_urls' = visited_urls
              /\ processed_count' = processed_count
              /\ documents' = documents
              /\ hpc' = hpc
        /\ source_idx' # source_idx =>
              /\ ~FetchInFlight
              /\ cpc = "idle"
              /\ to_save = << >>
              /\ source_idx' = source_idx + 1
        /\ (cpc' = "start" /\ cpc # "start") =>
              /\ hpc = "source"
              /\ ~FetchInFlight
              /\ to_save = << >>
              /\ config' = HarvestSources[source_names[source_idx]] ]_vars

\* The second source's crawl awaits a fetch, after the first source's
\* document was fetched again and saved.
C31_Witness ==
    /\ source_idx = 2
    /\ hpc = "crawl"
    /\ cpc = "fetching"
    /\ fpc = "sleep"
    /\ total_documents = 1
    /\ to_save = << >>
    /\ visited_urls # {}

\* C36: a crawl whose fetches all return or fail terminates: it returns,
\* with the queue drained or the page budget reached.
C36_CrawlTerminates ==
    <>(/\ cpc = "returned"
       /\ queue = << >> \/ processed_count >= max_pages)

\* The crawl has returned with its queue drained after fetching the index
\* page and, one level down, the second page.
C36_Witness ==
    /\ cpc = "returned"
    /\ queue = << >>
    /\ config.max_depth = 1
    /\ fetch_calls = << [url |-> IndexHtml, depth |-> 0],
                        [url |-> PageHtm, depth |-> 1] >>
    /\ visited_urls = {IndexHtml, PageHtm}
    /\ documents = << >>

\* The page budget in force: the max_pages argument if one is given, else
\* the source's max_pages.
BudgetInForce ==
    IF arg_max_pages # NoneInt THEN arg_max_pages ELSE config.max_pages

\* C3: crawl never returns more records than the page budget in force.
C3_RecordsWithinBudget ==
    cpc = "returned" => Len(documents) <= BudgetInForce

====
